---------------------------- MODULE Spec2Model ----------------------------
(***************************************************************************)
(* Model of memory-size-hover: the architecture resolver and layout table  *)
(* (src/src/typeInfo.ts) and the hover provider with its type-span locator *)
(* (src/src/hoverProvider.ts).                                             *)
(*                                                                         *)
(* Text is modelled as a sequence of one-character strings.  Offsets are   *)
(* the 0-based offsets of the source: offset i of s is s[i + 1].           *)
(***************************************************************************)
EXTENDS Integers, Sequences, FiniteSets, TLC

VARIABLES
  hostArch,          \* os.arch() of the extension host process
  cfgArchitecture,   \* setting memorySizeHover.architecture
  cfgIntelliSense,   \* setting C_Cpp.default.intelliSenseMode
  cfgShowArch,       \* setting memorySizeHover.showArchitecture
  architecture,      \* TypeInfoProvider.architecture (the label)
  is64Bit,           \* TypeInfoProvider.is64Bit
  refreshes,         \* refreshArchitecture() calls since the configuration last changed
  structCache,       \* MemorySizeHoverProvider.structCache: document uri -> findStructs result
  docStructs,        \* the user-defined types each document's text currently declares
  activeDoc,         \* the document the pointer is in
  lineText,          \* the line of that document the pointer is on
  hover              \* outcome of the provideHover call in progress, or Idle

vars == << hostArch, cfgArchitecture, cfgIntelliSense, cfgShowArch, architecture,
           is64Bit, refreshes, structCache, docStructs, activeDoc, lineText, hover >>

-----------------------------------------------------------------------------
(* Characters and the string primitives of the host language.               *)

LowerLetters ==
  << "a","b","c","d","e","f","g","h","i","j","k","l","m",
     "n","o","p","q","r","s","t","u","v","w","x","y","z" >>

UpperLetters ==
  << "A","B","C","D","E","F","G","H","I","J","K","L","M",
     "N","O","P","Q","R","S","T","U","V","W","X","Y","Z" >>

Digits == {"0","1","2","3","4","5","6","7","8","9"}

Range(f) == {f[i] : i \in DOMAIN f}

\* The regular expression class \w.
WordChars == Range(LowerLetters) \cup Range(UpperLetters) \cup Digits \cup {"_"}

\* The blanks that have no escape of their own in a string.
VerticalTab == ""
NoBreakSpace == " "
OghamSpaceMark == " "
ByteOrderMark == "﻿"

\* The regular expression class \s, which is also what trim() strips: the
\* white space and the line terminators of the language. (The class holds
\* U+2000..U+200A, U+2028, U+2029, U+202F, U+205F and U+3000 as well; a string
\* of this module cannot hold those.) A line of a document holds neither "\n"
\* nor "\r"; a type name handed to getTypeInfo may.
SpaceChars ==
  { " ", "\t", "\n", "\r", "\f",
    VerticalTab, NoBreakSpace, OghamSpaceMark, ByteOrderMark }

Min(S) == CHOOSE x \in S : \A y \in S : x <= y

\* The regular expression assertion \b at offset i of s.
WordBoundary(s, i) ==
  ((i > 0) /\ (s[i] \in WordChars)) # ((i < Len(s)) /\ (s[i + 1] \in WordChars))

\* End offset of the longest run of characters of class C starting at offset i.
RECURSIVE RunEnd(_, _, _)
RunEnd(s, i, C) ==
  IF i < Len(s) /\ s[i + 1] \in C THEN RunEnd(s, i + 1, C) ELSE i

\* Whether the literal lit stands at offset i of s.
LiteralAt(s, i, lit) ==
  /\ i + Len(lit) <= Len(s)
  /\ \A k \in 1..Len(lit) : s[i + k] = lit[k]

\* String.prototype.substring(a, b)
substring(s, a, b) == SubSeq(s, a + 1, b)

\* String.prototype.indexOf(sub): offset of the first occurrence, or -1.
indexOf(s, sub) ==
  LET at == {i \in 0..(Len(s) - Len(sub)) : LiteralAt(s, i, sub)}
  IN  IF at = {} THEN -1 ELSE Min(at)

\* String.prototype.includes(sub)
includes(s, sub) == indexOf(s, sub) >= 0

\* String.prototype.startsWith(sub)
startsWith(s, sub) == LiteralAt(s, 0, sub)

\* The characters of a string, one by one.
Chars(str) == [i \in 1..Len(str) |-> SubSeq(str, i, i)]

\* The backquote, taken out of a two-character string.
Backquote == SubSeq("`'", 1, 1)

\* The capitals toLowerCase() changes, beyond A..Z, and under each its
\* lower-case letter: the letters of the Unicode case mapping that a string of
\* this module can hold.
UpperCased ==
  Chars("ÀÁÂÃÄÅÆÇÈÉÊËÌÍÎÏÐÑÒÓÔÕÖØÙÚÛÜÝÞƂƄƇƋƎƑƘƠƢƤƦƧƩƬƮƯƱƲ") \o
  Chars("ƳƵƷƸƼǄǅǇǈǊǋǍǏǑǓǕǗǙǛǞǠǢǤǦǨǪǬǮǱǲǴǶǷǸǺǼǾΆΈΉΊΌΎΏΑΒΓΔ") \o
  Chars("ΕΖΗΘΙΚΛΜΝΞΟΠΡΣΤΥΦΧΨΩΪΫϏϘϚϜϞϠϢϤϦϨϪϬϮϴϷϹϺҀҊҌҎҐҒҔҖҘ") \o
  Chars("ҚҜҞҠҢҤҦҨҪҬҮҰҲҴҶҸҺҼҾӀӁӃӅӇӉӋӍӐӒӔӖӘӚӜӞӠӢӤӦӨӪӬӮӰӲӴӶӸ") \o
  Chars("ӺӼӾᎰᎱᎲᎳᎴᎵᎶᎷᎸᎹᎺᎻᎼᎽᎾᎿᏀᏁᏂᏃᏄᏅᏆᏇᏈᏉᏊᏋᏌᏍᏎᏏᏐᏑᏒᏓᏔᏕᏖᏗᏘᏙᏚᏛᏜ") \o
  Chars("ᏝᏞᏟᏠᏡᏢᏣᏤᏥᏦᏧᏨᏩᏪᏫᏬᏭᏮᏯᏰᏱᏲᏳᏴᏵᲉᲐᲑᲒᲓᲔᲕᲖᲗᲘᲙᲚᲛᲜᲝᲞᲟᲠᲡᲢᲣᲤᲥ") \o
  Chars("ᲦᲧᲨᲩᲪᲫᲬᲭᲮᲯᲰᲱᲲᲳᲴᲵᲶᲷᲸᲹᲺᲽᲾᲿẀẂẄẆẈẊẌẎẐẒẔẞẠẢẤẦẨẪẬẮẰẲẴẶ") \o
  Chars("ẸẺẼẾỀỂỄỆỈỊỌỎỐỒỔỖỘỚỜỞỠỢỤỦỨỪỬỮỰỲỴỶỸỺỼỾᾈᾉᾊᾋᾌᾍᾎᾏᾘᾙᾚᾛ") \o
  Chars("ᾜᾝᾞᾟᾨᾩᾪᾫᾬᾭᾮᾯᾸᾹᾼῌῘῙῨῩῬῼↃⒶⒷⒸⒹⒺⒻⒼⒽⒾⒿⓀⓁⓂⓃⓄⓅⓆⓇⓈⓉⓊⓋⓌⓍⓎ") \o
  Chars("ⓏⲀⲂⲄⲆⲈⲊⲌⲎⲐⲒⲔⲖⲘⲚⲜⲞⲠⲢⲤⲦⲨⲪⲬⲮⲰⲲⲴⲶⲸⲺⲼⲾⳀⳂⳄⳆⳈⳊⳌⳎⳐⳒⳔⳖⳘⳚⳜ") \o
  Chars("ⳞⳠⳢⳫⳭⳲꚀꚂꚄꚆꚈꚊꚌꚎꚐꚒꚔꚖꚘꚚꞀꞂꞄꞆꞋꞐꞒꞖꞘꞚꞜꞞꞠꞢꞤꞦꞨꞰꞱꞲꞴꞶꞸꞺꞼꞾꟀꟂ") \o
  Chars("ꟄꟅꟆꟇꟉꟌ꟎Ꟑ꟒꟔ꟖꟘꟚꟜꟵ")

LowerCased ==
  Chars("àáâãäåæçèéêëìíîïðñòóôõöøùúûüýþƃƅƈƌǝƒƙơƣƥʀƨʃƭʈưʊʋ") \o
  Chars("ƴƶʒƹƽǆǆǉǉǌǌǎǐǒǔǖǘǚǜǟǡǣǥǧǩǫǭǯǳǳǵƕƿǹǻǽǿάέήίόύώαβγδ") \o
  Chars("εζηθικλμνξοπρστυφχψωϊϋϗϙϛϝϟϡϣϥϧϩϫϭϯθϸϲϻҁҋҍҏґғҕҗҙ") \o
  Chars("қҝҟҡңҥҧҩҫҭүұҳҵҷҹһҽҿӏӂӄӆӈӊӌӎӑӓӕӗәӛӝӟӡӣӥӧөӫӭӯӱӳӵӷӹ") \o
  Chars("ӻӽӿꮀꮁꮂꮃꮄꮅꮆꮇꮈꮉꮊꮋꮌꮍꮎꮏꮐꮑꮒꮓꮔꮕꮖꮗꮘꮙꮚꮛꮜꮝꮞꮟꮠꮡꮢꮣꮤꮥꮦꮧꮨꮩꮪꮫꮬ") \o
  Chars("ꮭꮮꮯꮰꮱꮲꮳꮴꮵꮶꮷꮸꮹꮺꮻꮼꮽꮾꮿᏸᏹᏺᏻᏼᏽᲊაბგდევზთიკლმნოპჟრსტუფქ") \o
  Chars("ღყშჩცძწჭხჯჰჱჲჳჴჵჶჷჸჹჺჽჾჿẁẃẅẇẉẋẍẏẑẓẕßạảấầẩẫậắằẳẵặ") \o
  Chars("ẹẻẽếềểễệỉịọỏốồổỗộớờởỡợụủứừửữựỳỵỷỹỻỽỿᾀᾁᾂᾃᾄᾅᾆᾇᾐᾑᾒᾓ") \o
  Chars("ᾔᾕᾖᾗᾠᾡᾢᾣᾤᾥᾦᾧᾰᾱᾳῃῐῑῠῡῥῳↄⓐⓑⓒⓓⓔⓕⓖⓗⓘⓙⓚⓛⓜⓝⓞⓟⓠⓡⓢⓣⓤⓥⓦⓧⓨ") \o
  Chars("ⓩⲁⲃⲅⲇⲉⲋⲍⲏⲑⲓⲕⲗⲙⲛⲝⲟⲡⲣⲥⲧⲩⲫⲭⲯⲱⲳⲵⲷⲹⲻⲽⲿⳁⳃⳅⳇⳉⳋⳍⳏⳑⳓⳕⳗⳙⳛⳝ") \o
  Chars("ⳟⳡⳣⳬⳮⳳꚁꚃꚅꚇꚉꚋꚍꚏꚑꚓꚕꚗꚙꚛꞁꞃꞅꞇꞌꞑꞓꞗꞙꞛꞝꞟꞡꞣꞥꞧꞩʞʇʝꞵꞷꞹꞻꞽꞿꟁꟃ") \o
  Chars("ꞔʂᶎꟈꟊꟍ꟏ꟑꟓꟕꟗꟙꟛƛꟶ")

\* The capitals whose lower-case letter a string of this module cannot hold,
\* and for each the code point of that letter, which stands for it.
UpperCasedOnly ==
  Chars("ƁƆƉƊƏƐƓƔƖƗƜƝƟϽϾϿႠႡႢႣႤႥႦႧႨႩႪႫႬႭႮႯႰႱႲႳႴႵႶႷႸႹႺႻႼႽႾႿ") \o
  Chars("ჀჁჂჃჄჅჇჍᎠᎡᎢᎣᎤᎥᎦᎧᎨᎩᎪᎫᎬᎭᎮᎯᾺΆῈΈῊΉῚΊῪΎῸΌῺΏꞍꞪꞫꞬꞭꞮꞳꟋ")

LowerCasedNames ==
  << "U+0253", "U+0254", "U+0256", "U+0257", "U+0259", "U+025B", "U+0260", "U+0263",
     "U+0269", "U+0268", "U+026F", "U+0272", "U+0275", "U+037B", "U+037C", "U+037D",
     "U+2D00", "U+2D01", "U+2D02", "U+2D03", "U+2D04", "U+2D05", "U+2D06", "U+2D07",
     "U+2D08", "U+2D09", "U+2D0A", "U+2D0B", "U+2D0C", "U+2D0D", "U+2D0E", "U+2D0F",
     "U+2D10", "U+2D11", "U+2D12", "U+2D13", "U+2D14", "U+2D15", "U+2D16", "U+2D17",
     "U+2D18", "U+2D19", "U+2D1A", "U+2D1B", "U+2D1C", "U+2D1D", "U+2D1E", "U+2D1F",
     "U+2D20", "U+2D21", "U+2D22", "U+2D23", "U+2D24", "U+2D25", "U+2D27", "U+2D2D",
     "U+AB70", "U+AB71", "U+AB72", "U+AB73", "U+AB74", "U+AB75", "U+AB76", "U+AB77",
     "U+AB78", "U+AB79", "U+AB7A", "U+AB7B", "U+AB7C", "U+AB7D", "U+AB7E", "U+AB7F",
     "U+1F70", "U+1F71", "U+1F72", "U+1F73", "U+1F74", "U+1F75", "U+1F76", "U+1F77",
     "U+1F7A", "U+1F7B", "U+1F78", "U+1F79", "U+1F7C", "U+1F7D", "U+0265", "U+0266",
     "U+025C", "U+0261", "U+026C", "U+026A", "U+AB53", "U+0264" >>

\* The lower-case letter of every capital.
LowerOf ==
  [c \in Range(UpperLetters) \cup Range(UpperCased) \cup Range(UpperCasedOnly) |->
     IF c \in Range(UpperLetters)
     THEN LowerLetters[CHOOSE k \in DOMAIN UpperLetters : UpperLetters[k] = c]
     ELSE IF c \in Range(UpperCased)
     THEN LowerCased[CHOOSE k \in DOMAIN UpperCased : UpperCased[k] = c]
     ELSE LowerCasedNames[CHOOSE k \in DOMAIN UpperCasedOnly : UpperCasedOnly[k] = c]]

Capitals == DOMAIN LowerOf

\* The lower-case mapping of one character out of context.
toLowerChar(c) == IF c \in Capitals THEN LowerOf[c] ELSE c

\* The case-ignorable characters: toLowerCase() looks past them when it
\* decides whether a capital sigma ends a word.
CaseIgnorable ==
  {Backquote} \cup Range(
Chars("'.:^¨­¯´·¸ʰʱʲʳʴʵʶʷʸʹʺʻʼʽʾʿˀˁ˂˃˄˅ˆˇˈˉˊˋˌˍˎˏːˑ˒˓˔˕") \o
  Chars("˖˗˘˙˚˛˜˝˞˟ˠˡˢˣˤ˥˦˧˨˩˪˫ˬ˭ˮ˯˰˱˲˳˴˵˶˷˸˹˺˻˼˽˾˿΄΅·҃҄҅") \o
  Chars("҆҇҈҉ְֱֲֳִֵֶַָֹֺֻּ֑֖֛֢֣֤֥֦֧֪֚֭֮֒֓֔֕֗֘֙֜֝֞֟֠֡֨֩֫֬֯") \o
  Chars("ׇֽֿׁׂׅׄ״ۖۗۘۙۚۛۜ۝ۣ۟۠ۡۢۤۥۦ۪ۭۧۨ۫۬ަާިީުޫެޭޮޯް߫߬߭߮߯߰߱") \o
  Chars("߲߳ߴߵߺ߽࢈࢐࢑࢙࢚࢛ࢗ࢘࢜࢝࢞࢟ࣉ࣏࣐࣑࣒࣓࣊࣋࣌࣍࣎ࣔࣕࣖࣗࣘࣙࣚࣛࣜࣝࣞࣟ࣠࣡࣢ࣣࣦࣤࣥ") \o
  Chars("ࣰࣱࣲࣩ࣭࣮࣯ࣶࣹࣺࣧࣨ࣪࣫࣬ࣳࣴࣵࣷࣸࣻࣼࣽࣾࣿঁ়ুূৃৄ্ৢৣ৾ઁં઼ુૂૃૄૅેૈ્ૢૣ") \o
  Chars("ૺૻૼ૽૾૿ஂீ்ಁ಼ಿೆೌ್ೢೣඁ්ිීුූັິີຶື຺ຸູົຼໆ່້໊໋໌ໍ໎྄ཱྀྀྂྃ྆྇") \o
  Chars("ྍྎྏྐྑྒྒྷྔྕྖྗྙྚྛྜྜྷྞྟྠྡྡྷྣྤྥྦྦྷྨྩྪྫྫྷྭྮྯྰྱྲླྴྵྶྷྸྐྵྺྻྼ࿆") \o
  Chars("ႂႅႆႍႝჼ឴឵ិីឹឺុូួំ៉៊់៌៍៎៏័៑្៓ៗ៝ᢅᢆᢩᪧ᪵᪶᪷᪸᪹᪺᪽᪰᪱᪲᪳᪴᪻᪼᪾") \o
  Chars("ᪿᫀ᫃᫄᫊᫁᫂᫅᫆᫇᫈᫉᫋ᫌᫍᫎ᫏᫐᫑᫒᫓᫔᫕᫖᫗᫘᫙᫚᫛᫜᫝᫠᫡᫢᫣᫤᫥᫦᫧᫨᫩᫪᫫ᮀᮁᮢᮣᮤ") \o
  Chars("ᮥᮨᮩ᮫ᮬᮭ᯦ᯨᯩᯭᯯᯰᯱ᳔᳢᳣᳤᳥᳦᳧᳨᳕᳖᳗᳘᳙᳜᳝᳞᳟᳭᳐᳑᳒᳚᳛᳠᳴᳸᳹ᶛᶜᶝᶞᶟᶠᶡᶢ") \o
  Chars("ᶣᶤᶥᶦᶧᶨᶩᶪᶫᶬᶭᶮᶯᶰᶱᶲᶳᶴᶵᶶᶷᶸᶹᶺᶻᶼᶽᶾᶿ᷐᷎᷂᷊᷏᷀᷁᷃᷄᷅᷆᷇᷈᷉᷋᷌᷑᷒᷍") \o
  Chars("᷺᷹᷽᷿᷷᷸ᷓᷔᷕᷖᷗᷘᷙᷚᷛᷜᷝᷞᷟᷠᷡᷢᷣᷤᷥᷦᷧᷨᷩᷪᷫᷬᷭᷮᷯᷰᷱᷲᷳᷴ᷵᷻᷾᷶᷼᾽᾿῀") \o
  Chars("῁῍῎῏῝῞῟῭΅`´῾ₐₑₒₓₔₕₖₗₘₙₚₛₜ⃒⃓⃘⃙⃚⃐⃑⃔⃕⃖⃗⃛⃜⃝⃞⃟⃠⃡⃢⃣⃤⃥⃦") \o
  Chars("⃪⃫゙゚⃨⃬⃭⃮⃯⃧⃩⃰⳯⳰⳱ⷠⷡⷢⷣⷤⷥⷦⷧⷨⷩⷪⷫⷬⷭⷮⷯⷰⷱⷲⷳⷴⷵⷶⷷⷸⷹⷺⷻⷼⷽⷾⷿ゛") \o
  Chars("゜ゝゞーヽヾꓸꓹꓺꓻꓼꓽꚜꚝꚞꚟ꛰꛱ꞈ꞉꞊꟱ꟲꟳꟴꟸꟹ꣄ꣅ꣠꣡꣢꣣꣤꣥꣦꣧꣨꣩꣪꣫꣬꣭꣮꣯꣰꣱ꣿ") \o
  Chars("ꦀꦁꦂ꦳ꦶꦷꦸꦹꦼꦽꧏꧥꧦꪴꪰꪲꪳꪷꪸꪾ꪿꫁ꫝꫬꫭꫳꫴ꫶ꯥꯨ꯭﮲﮳﮴﮵﮶﮷﮸﮹﮺﮻﮼﮽﮾﮿﯀﯁﯂") \o
  Chars("﻿ﾞﾟ￣￹￺￻"))

\* The cased letters that are not case-ignorable.
CasedLetters ==
  Range(
Chars("ABCDEFGHIJKLMNOPQRSTUVWXYZabcdefghijklmnopqrstuv") \o
  Chars("wxyzªµºÀÁÂÃÄÅÆÇÈÉÊËÌÍÎÏÐÑÒÓÔÕÖØÙÚÛÜÝÞßàáâãäåæçèé") \o
  Chars("êëìíîïðñòóôõöøùúûüýþÿƀƁƂƃƄƅƆƇƈƉƊƋƌƍƎƏƐƑƒƓƔƕƖƗƘƙƚ") \o
  Chars("ƛƜƝƞƟƠơƢƣƤƥƦƧƨƩƪƫƬƭƮƯưƱƲƳƴƵƶƷƸƹƺƼƽƾƿǄǅǆǇǈǉǊǋǌǍǎǏ") \o
  Chars("ǐǑǒǓǔǕǖǗǘǙǚǛǜǝǞǟǠǡǢǣǤǥǦǧǨǩǪǫǬǭǮǯǰǱǲǳǴǵǶǷǸǹǺǻǼǽǾǿ") \o
  Chars("ʀʁʂʃʄʅʆʇʈʉʊʋʌʍʎʏʐʑʒʓʖʗʘʙʚʛʜʝʞʟʠʡʢʣʤʥʦʧʨʩʪʫʬʭʮʯΆΈ") \o
  Chars("ΉΊΌΎΏΐΑΒΓΔΕΖΗΘΙΚΛΜΝΞΟΠΡΣΤΥΦΧΨΩΪΫάέήίΰαβγδεζηθικλ") \o
  Chars("μνξοπρςστυφχψωϊϋόύώϏϐϑϒϓϔϕϖϗϘϙϚϛϜϝϞϟϠϡϢϣϤϥϦϧϨϩϪϫ") \o
  Chars("ϬϭϮϯϰϱϲϳϴϵϷϸϹϺϻϼϽϾϿҀҁҊҋҌҍҎҏҐґҒғҔҕҖҗҘҙҚқҜҝҞҟҠҡҢңҤ") \o
  Chars("ҥҦҧҨҩҪҫҬҭҮүҰұҲҳҴҵҶҷҸҹҺһҼҽҾҿӀӁӂӃӄӅӆӇӈӉӊӋӌӍӎӏӐӑӒӓӔ") \o
  Chars("ӕӖӗӘәӚӛӜӝӞӟӠӡӢӣӤӥӦӧӨөӪӫӬӭӮӯӰӱӲӳӴӵӶӷӸӹӺӻӼӽӾӿրցւփք") \o
  Chars("օֆևֈႠႡႢႣႤႥႦႧႨႩႪႫႬႭႮႯႰႱႲႳႴႵႶႷႸႹႺႻႼႽႾႿჀჁჂჃჄჅჇჍაბგდ") \o
  Chars("ევზთიკლმნოპჟრსტუფქღყშჩცძწჭხჯჰჱჲჳჴჵჶჷჸჹჺჽჾჿᎠᎡᎢᎣᎤᎥ") \o
  Chars("ᎦᎧᎨᎩᎪᎫᎬᎭᎮᎯᎰᎱᎲᎳᎴᎵᎶᎷᎸᎹᎺᎻᎼᎽᎾᎿᏀᏁᏂᏃᏄᏅᏆᏇᏈᏉᏊᏋᏌᏍᏎᏏᏐᏑᏒᏓᏔᏕ") \o
  Chars("ᏖᏗᏘᏙᏚᏛᏜᏝᏞᏟᏠᏡᏢᏣᏤᏥᏦᏧᏨᏩᏪᏫᏬᏭᏮᏯᏰᏱᏲᏳᏴᏵᏸᏹᏺᏻᏼᏽᲀᲁᲂᲃᲄᲅᲆᲇᲈᲉ") \o
  Chars("ᲊᲐᲑᲒᲓᲔᲕᲖᲗᲘᲙᲚᲛᲜᲝᲞᲟᲠᲡᲢᲣᲤᲥᲦᲧᲨᲩᲪᲫᲬᲭᲮᲯᲰᲱᲲᲳᲴᲵᲶᲷᲸᲹᲺᲽᲾᲿᶀ") \o
  Chars("ᶁᶂᶃᶄᶅᶆᶇᶈᶉᶊᶋᶌᶍᶎᶏᶐᶑᶒᶓᶔᶕᶖᶗᶘᶙᶚẀẁẂẃẄẅẆẇẈẉẊẋẌẍẎẏẐẑẒẓẔẕ") \o
  Chars("ẖẗẘẙẚẛẜẝẞẟẠạẢảẤấẦầẨẩẪẫẬậẮắẰằẲẳẴẵẶặẸẹẺẻẼẽẾếỀềỂểỄễ") \o
  Chars("ỆệỈỉỊịỌọỎỏỐốỒồỔổỖỗỘộỚớỜờỞởỠỡỢợỤụỦủỨứỪừỬửỮữỰựỲỳỴỵ") \o
  Chars("ỶỷỸỹỺỻỼỽỾỿᾀᾁᾂᾃᾄᾅᾆᾇᾈᾉᾊᾋᾌᾍᾎᾏᾐᾑᾒᾓᾔᾕᾖᾗᾘᾙᾚᾛᾜᾝᾞᾟᾠᾡᾢᾣᾤᾥ") \o
  Chars("ᾦᾧᾨᾩᾪᾫᾬᾭᾮᾯᾰᾱᾲᾳᾴᾶᾷᾸᾹᾺΆᾼιῂῃῄῆῇῈΈῊΉῌῐῑῒΐῖῗῘῙῚΊῠῡῢΰῤ") \o
  Chars("ῥῦῧῨῩῪΎῬῲῳῴῶῷῸΌῺΏῼↃↄⒶⒷⒸⒹⒺⒻⒼⒽⒾⒿⓀⓁⓂⓃⓄⓅⓆⓇⓈⓉⓊⓋⓌⓍⓎⓏⓐⓑ") \o
  Chars("ⓒⓓⓔⓕⓖⓗⓘⓙⓚⓛⓜⓝⓞⓟⓠⓡⓢⓣⓤⓥⓦⓧⓨⓩⲀⲁⲂⲃⲄⲅⲆⲇⲈⲉⲊⲋⲌⲍⲎⲏⲐⲑⲒⲓⲔⲕⲖⲗ") \o
  Chars("ⲘⲙⲚⲛⲜⲝⲞⲟⲠⲡⲢⲣⲤⲥⲦⲧⲨⲩⲪⲫⲬⲭⲮⲯⲰⲱⲲⲳⲴⲵⲶⲷⲸⲹⲺⲻⲼⲽⲾⲿⳀⳁⳂⳃⳄⳅⳆⳇ") \o
  Chars("ⳈⳉⳊⳋⳌⳍⳎⳏⳐⳑⳒⳓⳔⳕⳖⳗⳘⳙⳚⳛⳜⳝⳞⳟⳠⳡⳢⳣⳤⳫⳬⳭⳮⳲⳳꚀꚁꚂꚃꚄꚅꚆꚇꚈꚉꚊꚋꚌ") \o
  Chars("ꚍꚎꚏꚐꚑꚒꚓꚔꚕꚖꚗꚘꚙꚚꚛꞀꞁꞂꞃꞄꞅꞆꞇꞋꞌꞍꞎꞐꞑꞒꞓꞔꞕꞖꞗꞘꞙꞚꞛꞜꞝꞞꞟꞠꞡꞢꞣꞤ") \o
  Chars("ꞥꞦꞧꞨꞩꞪꞫꞬꞭꞮꞯꞰꞱꞲꞳꞴꞵꞶꞷꞸꞹꞺꞻꞼꞽꞾꞿꟀꟁꟂꟃꟄꟅꟆꟇꟈꟉꟊꟋꟌꟍ꟎꟏Ꟑꟑ꟒ꟓ꟔") \o
  Chars("ꟕꟖꟗꟘꟙꟚꟛꟜꟵꟶꟺꮀꮁꮂꮃꮄꮅꮆꮇꮈꮉꮊꮋꮌꮍꮎꮏꮐꮑꮒꮓꮔꮕꮖꮗꮘꮙꮚꮛꮜꮝꮞꮟꮠꮡꮢꮣꮤ") \o
  Chars("ꮥꮦꮧꮨꮩꮪꮫꮬꮭꮮꮯꮰꮱꮲꮳꮴꮵꮶꮷꮸꮹꮺꮻꮼꮽꮾꮿ"))

\* A cased letter stands before offset k of s, case-ignorable characters only
\* between.
RECURSIVE precededByCased(_, _)
precededByCased(s, k) ==
  IF k < 1 THEN FALSE
  ELSE IF s[k] \in CaseIgnorable THEN precededByCased(s, k - 1)
  ELSE s[k] \in CasedLetters

\* A cased letter stands from offset k of s on, case-ignorable characters only
\* before it.
RECURSIVE followedByCased(_, _)
followedByCased(s, k) ==
  IF k > Len(s) THEN FALSE
  ELSE IF s[k] \in CaseIgnorable THEN followedByCased(s, k + 1)
  ELSE s[k] \in CasedLetters

\* The capital sigma at s[k] ends a word: it is lowered to the final sigma.
isFinalSigma(s, k) ==
  s[k] = "Σ" /\ precededByCased(s, k - 1) /\ ~followedByCased(s, k + 1)

\* String.prototype.toLowerCase(): the Unicode lower-case mapping of every
\* character, the capital sigma by its place in the word.
toLowerCase(s) ==
  [k \in 1..Len(s) |-> IF isFinalSigma(s, k) THEN "ς" ELSE toLowerChar(s[k])]

\* String.prototype.trim()
trim(s) ==
  LET keep == {k \in 1..Len(s) : s[k] \notin SpaceChars}
  IN  IF keep = {} THEN << >>
      ELSE SubSeq(s, Min(keep), CHOOSE k \in keep : \A j \in keep : j <= k)

\* s.replace(/\s+/g, ' ') from offset i on.
RECURSIVE collapseFrom(_, _)
collapseFrom(s, i) ==
  IF i >= Len(s) THEN << >>
  ELSE IF s[i + 1] \in SpaceChars
       THEN << " " >> \o collapseFrom(s, RunEnd(s, i, SpaceChars))
       ELSE << s[i + 1] >> \o collapseFrom(s, i + 1)

collapseSpaces(s) == collapseFrom(s, 0)

\* s.replace(/\s*\*+\s*/g, '') from offset i on: a match starts at i when the
\* blank run at i is followed by at least one `*`.
RECURSIVE stripFrom(_, _)
stripFrom(s, i) ==
  IF i >= Len(s) THEN << >>
  ELSE LET j == RunEnd(s, i, SpaceChars)
       IN  IF j < Len(s) /\ s[j + 1] = "*"
           THEN stripFrom(s, RunEnd(s, RunEnd(s, j, {"*"}), SpaceChars))
           ELSE << s[i + 1] >> \o stripFrom(s, i + 1)

stripPointerMarkers(s) == stripFrom(s, 0)

-----------------------------------------------------------------------------
(* src/src/typeInfo.ts: the layout table and the architecture resolver.     *)

\* Outcomes of a call: a number, an object, null, or a thrown TypeError.
Null == [tag |-> "null"]
Num(n) == [tag |-> "number", value |-> n]
Thrown == [tag |-> "TypeError"]

\* The object literal `typeInfo` of getTypeInfo, in source order.
typeInfo ==
  << [key |-> <<"c","h","a","r">>,
      x32 |-> [size |-> 1, alignment |-> 1], x64 |-> [size |-> 1, alignment |-> 1],
      desc |-> "Character type, always 1 byte"],
     [key |-> <<"s","i","g","n","e","d"," ","c","h","a","r">>,
      x32 |-> [size |-> 1, alignment |-> 1], x64 |-> [size |-> 1, alignment |-> 1],
      desc |-> "Signed character (-128 to 127)"],
     [key |-> <<"u","n","s","i","g","n","e","d"," ","c","h","a","r">>,
      x32 |-> [size |-> 1, alignment |-> 1], x64 |-> [size |-> 1, alignment |-> 1],
      desc |-> "Unsigned character (0 to 255)"],
     [key |-> <<"s","h","o","r","t">>,
      x32 |-> [size |-> 2, alignment |-> 2], x64 |-> [size |-> 2, alignment |-> 2],
      desc |-> "Short integer, typically 16-bit"],
     [key |-> <<"s","h","o","r","t"," ","i","n","t">>,
      x32 |-> [size |-> 2, alignment |-> 2], x64 |-> [size |-> 2, alignment |-> 2],
      desc |-> "Short integer, typically 16-bit"],
     [key |-> <<"u","n","s","i","g","n","e","d"," ","s","h","o","r","t">>,
      x32 |-> [size |-> 2, alignment |-> 2], x64 |-> [size |-> 2, alignment |-> 2],
      desc |-> "Unsigned short integer"],
     [key |-> <<"u","n","s","i","g","n","e","d"," ","s","h","o","r","t"," ","i","n","t">>,
      x32 |-> [size |-> 2, alignment |-> 2], x64 |-> [size |-> 2, alignment |-> 2],
      desc |-> "Unsigned short integer"],
     [key |-> <<"i","n","t">>,
      x32 |-> [size |-> 4, alignment |-> 4], x64 |-> [size |-> 4, alignment |-> 4],
      desc |-> "Standard integer, typically 32-bit"],
     [key |-> <<"s","i","g","n","e","d">>,
      x32 |-> [size |-> 4, alignment |-> 4], x64 |-> [size |-> 4, alignment |-> 4],
      desc |-> "Signed integer (same as int)"],
     [key |-> <<"s","i","g","n","e","d"," ","i","n","t">>,
      x32 |-> [size |-> 4, alignment |-> 4], x64 |-> [size |-> 4, alignment |-> 4],
      desc |-> "Signed integer, typically 32-bit"],
     [key |-> <<"u","n","s","i","g","n","e","d">>,
      x32 |-> [size |-> 4, alignment |-> 4], x64 |-> [size |-> 4, alignment |-> 4],
      desc |-> "Unsigned integer"],
     [key |-> <<"u","n","s","i","g","n","e","d"," ","i","n","t">>,
      x32 |-> [size |-> 4, alignment |-> 4], x64 |-> [size |-> 4, alignment |-> 4],
      desc |-> "Unsigned integer, typically 32-bit"],
     [key |-> <<"l","o","n","g">>,
      x32 |-> [size |-> 4, alignment |-> 4], x64 |-> [size |-> 8, alignment |-> 8],
      desc |-> "Long integer (platform dependent)"],
     [key |-> <<"l","o","n","g"," ","i","n","t">>,
      x32 |-> [size |-> 4, alignment |-> 4], x64 |-> [size |-> 8, alignment |-> 8],
      desc |-> "Long integer (platform dependent)"],
     [key |-> <<"s","i","g","n","e","d"," ","l","o","n","g">>,
      x32 |-> [size |-> 4, alignment |-> 4], x64 |-> [size |-> 8, alignment |-> 8],
      desc |-> "Signed long integer"],
     [key |-> <<"s","i","g","n","e","d"," ","l","o","n","g"," ","i","n","t">>,
      x32 |-> [size |-> 4, alignment |-> 4], x64 |-> [size |-> 8, alignment |-> 8],
      desc |-> "Signed long integer"],
     [key |-> <<"u","n","s","i","g","n","e","d"," ","l","o","n","g">>,
      x32 |-> [size |-> 4, alignment |-> 4], x64 |-> [size |-> 8, alignment |-> 8],
      desc |-> "Unsigned long integer"],
     [key |-> <<"u","n","s","i","g","n","e","d"," ","l","o","n","g"," ","i","n","t">>,
      x32 |-> [size |-> 4, alignment |-> 4], x64 |-> [size |-> 8, alignment |-> 8],
      desc |-> "Unsigned long integer"],
     [key |-> <<"l","o","n","g"," ","l","o","n","g">>,
      x32 |-> [size |-> 8, alignment |-> 8], x64 |-> [size |-> 8, alignment |-> 8],
      desc |-> "Long long integer, always 64-bit"],
     [key |-> <<"l","o","n","g"," ","l","o","n","g"," ","i","n","t">>,
      x32 |-> [size |-> 8, alignment |-> 8], x64 |-> [size |-> 8, alignment |-> 8],
      desc |-> "Long long integer, always 64-bit"],
     [key |-> <<"s","i","g","n","e","d"," ","l","o","n","g"," ","l","o","n","g">>,
      x32 |-> [size |-> 8, alignment |-> 8], x64 |-> [size |-> 8, alignment |-> 8],
      desc |-> "Signed long long integer"],
     [key |-> <<"s","i","g","n","e","d"," ","l","o","n","g"," ","l","o","n","g"," ","i","n","t">>,
      x32 |-> [size |-> 8, alignment |-> 8], x64 |-> [size |-> 8, alignment |-> 8],
      desc |-> "Signed long long integer"],
     [key |-> <<"u","n","s","i","g","n","e","d"," ","l","o","n","g"," ","l","o","n","g">>,
      x32 |-> [size |-> 8, alignment |-> 8], x64 |-> [size |-> 8, alignment |-> 8],
      desc |-> "Unsigned long long integer"],
     [key |-> <<"u","n","s","i","g","n","e","d"," ","l","o","n","g"," ","l","o","n","g"," ","i","n","t">>,
      x32 |-> [size |-> 8, alignment |-> 8], x64 |-> [size |-> 8, alignment |-> 8],
      desc |-> "Unsigned long long integer"],
     [key |-> <<"f","l","o","a","t">>,
      x32 |-> [size |-> 4, alignment |-> 4], x64 |-> [size |-> 4, alignment |-> 4],
      desc |-> "Single precision floating point (IEEE 754)"],
     [key |-> <<"d","o","u","b","l","e">>,
      x32 |-> [size |-> 8, alignment |-> 8], x64 |-> [size |-> 8, alignment |-> 8],
      desc |-> "Double precision floating point (IEEE 754)"],
     [key |-> <<"l","o","n","g"," ","d","o","u","b","l","e">>,
      x32 |-> [size |-> 12, alignment |-> 4], x64 |-> [size |-> 16, alignment |-> 16],
      desc |-> "Extended precision floating point"],
     [key |-> <<"b","o","o","l">>,
      x32 |-> [size |-> 1, alignment |-> 1], x64 |-> [size |-> 1, alignment |-> 1],
      desc |-> "Boolean type (C++)"],
     [key |-> <<"_","B","o","o","l">>,
      x32 |-> [size |-> 1, alignment |-> 1], x64 |-> [size |-> 1, alignment |-> 1],
      desc |-> "Boolean type (C99)"],
     [key |-> <<"w","c","h","a","r","_","t">>,
      x32 |-> [size |-> 2, alignment |-> 2], x64 |-> [size |-> 4, alignment |-> 4],
      desc |-> "Wide character type"],
     [key |-> <<"s","i","z","e","_","t">>,
      x32 |-> [size |-> 4, alignment |-> 4], x64 |-> [size |-> 8, alignment |-> 8],
      desc |-> "Size type for array indexing"],
     [key |-> <<"s","s","i","z","e","_","t">>,
      x32 |-> [size |-> 4, alignment |-> 4], x64 |-> [size |-> 8, alignment |-> 8],
      desc |-> "Signed size type"],
     [key |-> <<"p","t","r","d","i","f","f","_","t">>,
      x32 |-> [size |-> 4, alignment |-> 4], x64 |-> [size |-> 8, alignment |-> 8],
      desc |-> "Pointer difference type"],
     [key |-> <<"i","n","t","p","t","r","_","t">>,
      x32 |-> [size |-> 4, alignment |-> 4], x64 |-> [size |-> 8, alignment |-> 8],
      desc |-> "Integer type for storing pointers"],
     [key |-> <<"u","i","n","t","p","t","r","_","t">>,
      x32 |-> [size |-> 4, alignment |-> 4], x64 |-> [size |-> 8, alignment |-> 8],
      desc |-> "Unsigned integer type for storing pointers"],
     [key |-> <<"o","f","f","_","t">>,
      x32 |-> [size |-> 4, alignment |-> 4], x64 |-> [size |-> 8, alignment |-> 8],
      desc |-> "File offset type"],
     [key |-> <<"t","i","m","e","_","t">>,
      x32 |-> [size |-> 4, alignment |-> 4], x64 |-> [size |-> 8, alignment |-> 8],
      desc |-> "Time type"],
     [key |-> <<"i","n","t","8","_","t">>,
      x32 |-> [size |-> 1, alignment |-> 1], x64 |-> [size |-> 1, alignment |-> 1],
      desc |-> "Exactly 8-bit signed integer"],
     [key |-> <<"u","i","n","t","8","_","t">>,
      x32 |-> [size |-> 1, alignment |-> 1], x64 |-> [size |-> 1, alignment |-> 1],
      desc |-> "Exactly 8-bit unsigned integer"],
     [key |-> <<"i","n","t","1","6","_","t">>,
      x32 |-> [size |-> 2, alignment |-> 2], x64 |-> [size |-> 2, alignment |-> 2],
      desc |-> "Exactly 16-bit signed integer"],
     [key |-> <<"u","i","n","t","1","6","_","t">>,
      x32 |-> [size |-> 2, alignment |-> 2], x64 |-> [size |-> 2, alignment |-> 2],
      desc |-> "Exactly 16-bit unsigned integer"],
     [key |-> <<"i","n","t","3","2","_","t">>,
      x32 |-> [size |-> 4, alignment |-> 4], x64 |-> [size |-> 4, alignment |-> 4],
      desc |-> "Exactly 32-bit signed integer"],
     [key |-> <<"u","i","n","t","3","2","_","t">>,
      x32 |-> [size |-> 4, alignment |-> 4], x64 |-> [size |-> 4, alignment |-> 4],
      desc |-> "Exactly 32-bit unsigned integer"],
     [key |-> <<"i","n","t","6","4","_","t">>,
      x32 |-> [size |-> 8, alignment |-> 8], x64 |-> [size |-> 8, alignment |-> 8],
      desc |-> "Exactly 64-bit signed integer"],
     [key |-> <<"u","i","n","t","6","4","_","t">>,
      x32 |-> [size |-> 8, alignment |-> 8], x64 |-> [size |-> 8, alignment |-> 8],
      desc |-> "Exactly 64-bit unsigned integer"],
     [key |-> <<"i","n","t","_","f","a","s","t","8","_","t">>,
      x32 |-> [size |-> 1, alignment |-> 1], x64 |-> [size |-> 1, alignment |-> 1],
      desc |-> "Fastest type with at least 8 bits"],
     [key |-> <<"u","i","n","t","_","f","a","s","t","8","_","t">>,
      x32 |-> [size |-> 1, alignment |-> 1], x64 |-> [size |-> 1, alignment |-> 1],
      desc |-> "Fastest unsigned type with at least 8 bits"],
     [key |-> <<"i","n","t","_","f","a","s","t","1","6","_","t">>,
      x32 |-> [size |-> 4, alignment |-> 4], x64 |-> [size |-> 8, alignment |-> 8],
      desc |-> "Fastest type with at least 16 bits"],
     [key |-> <<"u","i","n","t","_","f","a","s","t","1","6","_","t">>,
      x32 |-> [size |-> 4, alignment |-> 4], x64 |-> [size |-> 8, alignment |-> 8],
      desc |-> "Fastest unsigned type with at least 16 bits"],
     [key |-> <<"i","n","t","_","f","a","s","t","3","2","_","t">>,
      x32 |-> [size |-> 4, alignment |-> 4], x64 |-> [size |-> 8, alignment |-> 8],
      desc |-> "Fastest type with at least 32 bits"],
     [key |-> <<"u","i","n","t","_","f","a","s","t","3","2","_","t">>,
      x32 |-> [size |-> 4, alignment |-> 4], x64 |-> [size |-> 8, alignment |-> 8],
      desc |-> "Fastest unsigned type with at least 32 bits"],
     [key |-> <<"i","n","t","_","f","a","s","t","6","4","_","t">>,
      x32 |-> [size |-> 8, alignment |-> 8], x64 |-> [size |-> 8, alignment |-> 8],
      desc |-> "Fastest type with at least 64 bits"],
     [key |-> <<"u","i","n","t","_","f","a","s","t","6","4","_","t">>,
      x32 |-> [size |-> 8, alignment |-> 8], x64 |-> [size |-> 8, alignment |-> 8],
      desc |-> "Fastest unsigned type with at least 64 bits"],
     [key |-> <<"i","n","t","_","l","e","a","s","t","8","_","t">>,
      x32 |-> [size |-> 1, alignment |-> 1], x64 |-> [size |-> 1, alignment |-> 1],
      desc |-> "Smallest type with at least 8 bits"],
     [key |-> <<"u","i","n","t","_","l","e","a","s","t","8","_","t">>,
      x32 |-> [size |-> 1, alignment |-> 1], x64 |-> [size |-> 1, alignment |-> 1],
      desc |-> "Smallest unsigned type with at least 8 bits"],
     [key |-> <<"i","n","t","_","l","e","a","s","t","1","6","_","t">>,
      x32 |-> [size |-> 2, alignment |-> 2], x64 |-> [size |-> 2, alignment |-> 2],
      desc |-> "Smallest type with at least 16 bits"],
     [key |-> <<"u","i","n","t","_","l","e","a","s","t","1","6","_","t">>,
      x32 |-> [size |-> 2, alignment |-> 2], x64 |-> [size |-> 2, alignment |-> 2],
      desc |-> "Smallest unsigned type with at least 16 bits"],
     [key |-> <<"i","n","t","_","l","e","a","s","t","3","2","_","t">>,
      x32 |-> [size |-> 4, alignment |-> 4], x64 |-> [size |-> 4, alignment |-> 4],
      desc |-> "Smallest type with at least 32 bits"],
     [key |-> <<"u","i","n","t","_","l","e","a","s","t","3","2","_","t">>,
      x32 |-> [size |-> 4, alignment |-> 4], x64 |-> [size |-> 4, alignment |-> 4],
      desc |-> "Smallest unsigned type with at least 32 bits"],
     [key |-> <<"i","n","t","_","l","e","a","s","t","6","4","_","t">>,
      x32 |-> [size |-> 8, alignment |-> 8], x64 |-> [size |-> 8, alignment |-> 8],
      desc |-> "Smallest type with at least 64 bits"],
     [key |-> <<"u","i","n","t","_","l","e","a","s","t","6","4","_","t">>,
      x32 |-> [size |-> 8, alignment |-> 8], x64 |-> [size |-> 8, alignment |-> 8],
      desc |-> "Smallest unsigned type with at least 64 bits"],
     [key |-> <<"i","n","t","m","a","x","_","t">>,
      x32 |-> [size |-> 8, alignment |-> 8], x64 |-> [size |-> 8, alignment |-> 8],
      desc |-> "Maximum width signed integer"],
     [key |-> <<"u","i","n","t","m","a","x","_","t">>,
      x32 |-> [size |-> 8, alignment |-> 8], x64 |-> [size |-> 8, alignment |-> 8],
      desc |-> "Maximum width unsigned integer"] >>

\* The properties an object literal inherits from Object.prototype: the lookup
\* typeInfo[name] finds them as well as the literal's own keys.
ObjectPrototypeKeys ==
  { <<"c","o","n","s","t","r","u","c","t","o","r">>,
    <<"_","_","p","r","o","t","o","_","_">>,
    <<"h","a","s","O","w","n","P","r","o","p","e","r","t","y">>,
    <<"i","s","P","r","o","t","o","t","y","p","e","O","f">>,
    <<"p","r","o","p","e","r","t","y","I","s","E","n","u","m","e","r","a","b","l","e">>,
    <<"t","o","S","t","r","i","n","g">>,
    <<"v","a","l","u","e","O","f">>,
    <<"t","o","L","o","c","a","l","e","S","t","r","i","n","g">>,
    <<"_","_","d","e","f","i","n","e","G","e","t","t","e","r","_","_">>,
    <<"_","_","d","e","f","i","n","e","S","e","t","t","e","r","_","_">>,
    <<"_","_","l","o","o","k","u","p","G","e","t","t","e","r","_","_">>,
    <<"_","_","l","o","o","k","u","p","S","e","t","t","e","r","_","_">> }

\* const normalizedType = type.trim().toLowerCase().replace(/\s+/g, ' ')
normalizedType(type) == collapseSpaces(toLowerCase(trim(type)))

\* table[name] || null, on an object literal: an own key gives its entry, a
\* name inherited from Object.prototype gives that inherited value.
lookupIn(table, name) ==
  IF \E k \in DOMAIN table : table[k].key = name
  THEN [tag |-> "entry", info |-> table[CHOOSE k \in DOMAIN table : table[k].key = name]]
  ELSE IF name \in ObjectPrototypeKeys THEN [tag |-> "inherited"]
  ELSE Null

\* typeInfo[name] || null
lookupProperty(name) == lookupIn(typeInfo, name)

\* TypeInfoProvider.getTypeInfo
getTypeInfo(type) == lookupProperty(normalizedType(type))

\* this.is64Bit ? info.x32.size : info.x64.size: the two fields exchanged.
sizeOfOtherWidth(info) ==
  IF info.tag = "null" THEN Null
  ELSE IF info.tag = "inherited" THEN Thrown
  ELSE Num(IF is64Bit THEN info.info.x32.size ELSE info.info.x64.size)

\* getMemorySize with the two bit-widths' fields exchanged.
getMemorySizeOtherWidth(type) == sizeOfOtherWidth(getTypeInfo(type))

\* if (!info) return null; return this.is64Bit ? info.x64.size : info.x32.size;
\* an inherited property has no x32/x64 field, so reading `.size` of it throws.
sizeOf(info) ==
  IF info.tag = "null" THEN Null
  ELSE IF info.tag = "inherited" THEN Thrown
  ELSE Num(IF is64Bit THEN info.info.x64.size ELSE info.info.x32.size)

\* TypeInfoProvider.getMemorySize
getMemorySize(type) == sizeOf(getTypeInfo(type))

\* if (!info) return null; return this.is64Bit ? info.x64.alignment : info.x32.alignment
alignmentOf(info) ==
  IF info.tag = "null" THEN Null
  ELSE IF info.tag = "inherited" THEN Thrown
  ELSE Num(IF is64Bit THEN info.info.x64.alignment ELSE info.info.x32.alignment)

\* TypeInfoProvider.getAlignment
getAlignment(type) == alignmentOf(getTypeInfo(type))

\* TypeInfoProvider.getPointerSize
getPointerSize == IF is64Bit THEN 8 ELSE 4

\* hostArch.includes('64')
hostIs64 == includes(hostArch, <<"6","4">>)

\* The substrings detectTargetArchitecture looks for, in source order.
TargetPatterns64 ==
  << <<"x","6","4">>, <<"a","m","d","6","4">>, <<"a","r","m","6","4">>,
     <<"a","a","r","c","h","6","4">> >>

TargetPatterns32 ==
  << <<"x","8","6">>, <<"i","3","8","6">>, <<"i","6","8","6">>, <<"a","r","m">>,
     <<"3","2">> >>

includesAny(s, pats) == \E k \in DOMAIN pats : includes(s, pats[k])

\* The `x64 (target: ...)` and `x32 (target: ...)` results.
targetResult(is64, mode) ==
  [tag |-> "resolved", is64Bit |-> is64,
   arch |-> (IF is64 THEN <<"x","6","4">> ELSE <<"x","3","2">>)
            \o <<" ","(","t","a","r","g","e","t",":"," ">> \o mode \o <<")">>]

\* classifyTarget with the 32-bit substrings looked for first.
classifyTarget32First(mode) ==
  IF mode = << >> THEN Null
  ELSE IF includesAny(mode, TargetPatterns32) THEN targetResult(FALSE, mode)
  ELSE IF includesAny(mode, TargetPatterns64) THEN targetResult(TRUE, mode)
  ELSE Null

\* detectTargetArchitecture with the 32-bit substrings looked for first.
detectTargetArchitecture32First(intelliSenseMode) ==
  classifyTarget32First(toLowerCase(intelliSenseMode))

\* The body of detectTargetArchitecture on the lower-cased mode.
classifyTarget(mode) ==
  IF mode = << >> THEN Null
  ELSE IF includesAny(mode, TargetPatterns64) THEN targetResult(TRUE, mode)
  ELSE IF includesAny(mode, TargetPatterns32) THEN targetResult(FALSE, mode)
  ELSE Null

\* TypeInfoProvider.detectTargetArchitecture; intelliSenseMode is the value of
\* cppConfig.get('default.intelliSenseMode', '').
detectTargetArchitecture(intelliSenseMode) == classifyTarget(toLowerCase(intelliSenseMode))

\* if (targetArch) return targetArch; else the host with the fallback label.
targetOrHost(targetArch) ==
  IF targetArch.tag = "resolved"
  THEN [is64Bit |-> targetArch.is64Bit, arch |-> targetArch.arch]
  ELSE [is64Bit |-> hostIs64,
        arch |-> hostArch \o <<" ","(","t","a","r","g","e","t"," ","u","n","a","v",
                               "a","i","l","a","b","l","e",","," ","h","o","s","t",
                               " ","f","a","l","l","b","a","c","k",")">>]

\* TypeInfoProvider.resolveArchitecture; mode is config.get('architecture', 'auto').
resolveArchitecture(mode, intelliSenseMode) ==
  IF mode = "x32"
  THEN [is64Bit |-> FALSE, arch |-> <<"x","3","2"," ","(","m","a","n","u","a","l",")">>]
  ELSE IF mode = "x64"
  THEN [is64Bit |-> TRUE, arch |-> <<"x","6","4"," ","(","m","a","n","u","a","l",")">>]
  ELSE IF mode = "target"
  THEN targetOrHost(detectTargetArchitecture(intelliSenseMode))
  ELSE [is64Bit |-> hostIs64, arch |-> hostArch \o <<" ","(","h","o","s","t",")">>]

\* The assignments held back when the resolution is the host fallback: the
\* state of the resolution before stays.
assignResolvedSticky(resolved) ==
  IF includes(resolved.arch, <<"f","a","l","l","b","a","c","k">>)
  THEN UNCHANGED << architecture, is64Bit >>
  ELSE /\ architecture' = resolved.arch
       /\ is64Bit' = resolved.is64Bit

\* this.architecture = resolved.arch; this.is64Bit = resolved.is64Bit
assignResolved(resolved) ==
  /\ architecture' = resolved.arch
  /\ is64Bit' = resolved.is64Bit

\* TypeInfoProvider.refreshArchitecture under the configuration (mode, intelliSenseMode).
refreshArchitecture(mode, intelliSenseMode) ==
  assignResolved(resolveArchitecture(mode, intelliSenseMode))

-----------------------------------------------------------------------------
(* src/src/hoverProvider.ts: the type-span locator.                         *)

\* The array `typeKeywords` of getTypeAtPosition, in source order.
typeKeywords ==
  << <<"s","i","g","n","e","d">>,
     <<"u","n","s","i","g","n","e","d">>,
     <<"c","o","n","s","t">>,
     <<"v","o","l","a","t","i","l","e">>,
     <<"s","t","a","t","i","c">>,
     <<"e","x","t","e","r","n">>,
     <<"r","e","g","i","s","t","e","r">>,
     <<"s","h","o","r","t">>,
     <<"l","o","n","g">>,
     <<"c","h","a","r">>,
     <<"i","n","t">>,
     <<"f","l","o","a","t">>,
     <<"d","o","u","b","l","e">>,
     <<"b","o","o","l">>,
     <<"_","B","o","o","l">>,
     <<"w","c","h","a","r","_","t">>,
     <<"i","n","t","8","_","t">>,
     <<"i","n","t","1","6","_","t">>,
     <<"i","n","t","3","2","_","t">>,
     <<"i","n","t","6","4","_","t">>,
     <<"u","i","n","t","8","_","t">>,
     <<"u","i","n","t","1","6","_","t">>,
     <<"u","i","n","t","3","2","_","t">>,
     <<"u","i","n","t","6","4","_","t">>,
     <<"s","i","z","e","_","t">>,
     <<"p","t","r","d","i","f","f","_","t">>,
     <<"i","n","t","p","t","r","_","t">>,
     <<"u","i","n","t","p","t","r","_","t">>,
     <<"i","n","t","_","f","a","s","t","8","_","t">>,
     <<"i","n","t","_","f","a","s","t","1","6","_","t">>,
     <<"i","n","t","_","f","a","s","t","3","2","_","t">>,
     <<"i","n","t","_","f","a","s","t","6","4","_","t">>,
     <<"u","i","n","t","_","f","a","s","t","8","_","t">>,
     <<"u","i","n","t","_","f","a","s","t","1","6","_","t">>,
     <<"u","i","n","t","_","f","a","s","t","3","2","_","t">>,
     <<"u","i","n","t","_","f","a","s","t","6","4","_","t">>,
     <<"i","n","t","_","l","e","a","s","t","8","_","t">>,
     <<"i","n","t","_","l","e","a","s","t","1","6","_","t">>,
     <<"i","n","t","_","l","e","a","s","t","3","2","_","t">>,
     <<"i","n","t","_","l","e","a","s","t","6","4","_","t">>,
     <<"u","i","n","t","_","l","e","a","s","t","8","_","t">>,
     <<"u","i","n","t","_","l","e","a","s","t","1","6","_","t">>,
     <<"u","i","n","t","_","l","e","a","s","t","3","2","_","t">>,
     <<"u","i","n","t","_","l","e","a","s","t","6","4","_","t">>,
     <<"i","n","t","m","a","x","_","t">>,
     <<"u","i","n","t","m","a","x","_","t">>,
     <<"s","t","r","u","c","t">>,
     <<"u","n","i","o","n">>,
     <<"e","n","u","m">>,
     <<"c","l","a","s","s">>,
     <<"v","o","i","d">> >>

NoMatch == [found |-> FALSE]

\* The alternatives of (?:struct|union|class), in source order.
AggregateKeywords ==
  << <<"s","t","r","u","c","t">>, <<"u","n","i","o","n">>, <<"c","l","a","s","s">> >>

\* One attempt of /\b(?:struct|union|class)\s+(\w+)(?:\s*\*+)?\b/ at offset i.
\* Every quantifier is greedy and none can give characters back with success:
\* a shorter \s+ leaves a blank where \w+ must start, a shorter \w+ or \*+
\* leaves the final \b between two characters of the same class.  So the
\* match is the full runs, with the optional pointer group kept only when the
\* \b after its last `*` holds.
structPatternAt(s, i) ==
  LET kws   == {k \in DOMAIN AggregateKeywords : LiteralAt(s, i, AggregateKeywords[k])}
      kwEnd == i + Len(AggregateKeywords[CHOOSE k \in kws : TRUE])
      wsEnd == RunEnd(s, kwEnd, SpaceChars)
      nmEnd == RunEnd(s, wsEnd, WordChars)
      spEnd == RunEnd(s, nmEnd, SpaceChars)
      stEnd == RunEnd(s, spEnd, {"*"})
      end   == IF stEnd > spEnd /\ WordBoundary(s, stEnd) THEN stEnd ELSE nmEnd
  IN  IF /\ WordBoundary(s, i)
         /\ kws # {}
         /\ wsEnd > kwEnd
         /\ nmEnd > wsEnd
         /\ WordBoundary(s, end)
      THEN [found |-> TRUE, index |-> i, end |-> end,
            text |-> substring(s, i, end), group1 |-> substring(s, wsEnd, nmEnd)]
      ELSE NoMatch

\* The match m if there is one, else the match other.
orElse(m, other) == IF m.found THEN m ELSE other

\* structPattern.exec(lineText) with structPattern.lastIndex = from: the match
\* at the least offset >= from.
RECURSIVE structPatternExec(_, _)
structPatternExec(s, from) ==
  IF from > Len(s) THEN NoMatch
  ELSE orElse(structPatternAt(s, from), structPatternExec(s, from + 1))

\* The pattern of strategy 3,
\*   \b(?:(?:kw1|kw2|...)\s*)+(?:\*+)?\b
\* matched as a backtracking matcher does.  typeTail is (?:\*+)?\b at offset i:
\* the whole run of `*` or none (a shorter run ends between two `*`, where \b
\* fails).  The result is the end offset of the match, or -1.
typeTail(s, i) ==
  LET stEnd == RunEnd(s, i, {"*"})
  IN  IF stEnd > i /\ WordBoundary(s, stEnd) THEN stEnd
      ELSE IF WordBoundary(s, i) THEN i
      ELSE -1

\* The alternatives of the keyword group that can match at offset i, in source
\* order: those that begin with the character there.
typeKeywordsByFirst ==
  [c \in {typeKeywords[k][1] : k \in DOMAIN typeKeywords} |->
     SelectSeq(typeKeywords, LAMBDA kw : kw[1] = c)]

alternativesAt(s, i) ==
  IF i < Len(s) /\ s[i + 1] \in DOMAIN typeKeywordsByFirst
  THEN typeKeywordsByFirst[s[i + 1]]
  ELSE << >>

\* typeGroup: one iteration of the group at offset i, trying the alternatives
\* from the k-th on; typeRest: what follows an iteration whose \s* took the
\* blanks lo..hi: first one more iteration, then the tail, then one blank less.
RECURSIVE typeGroup(_, _, _), typeRest(_, _, _)
typeGroup(s, i, k) ==
  LET alts == alternativesAt(s, i)
  IN  IF k > Len(alts) THEN -1
      ELSE IF LiteralAt(s, i, alts[k])
           THEN LET e == i + Len(alts[k])
                    r == typeRest(s, e, RunEnd(s, e, SpaceChars))
                IN  IF r >= 0 THEN r ELSE typeGroup(s, i, k + 1)
           ELSE typeGroup(s, i, k + 1)

typeRest(s, lo, hi) ==
  LET more == typeGroup(s, hi, 1)
      tail == typeTail(s, hi)
  IN  IF more >= 0 THEN more
      ELSE IF tail >= 0 THEN tail
      ELSE IF hi > lo THEN typeRest(s, lo, hi - 1)
      ELSE -1

\* The match of typePattern from offset i to offset end, if end is an offset.
typeMatch(s, i, end) ==
  IF end >= 0
  THEN [found |-> TRUE, index |-> i, end |-> end, text |-> substring(s, i, end)]
  ELSE NoMatch

\* One attempt of typePattern at offset i.
typePatternAt(s, i) == typeMatch(s, i, IF WordBoundary(s, i) THEN typeGroup(s, i, 1) ELSE -1)

\* typePattern.exec(lineText) with typePattern.lastIndex = from.
RECURSIVE typePatternExec(_, _)
typePatternExec(s, from) ==
  IF from > Len(s) THEN NoMatch
  ELSE orElse(typePatternAt(s, from), typePatternExec(s, from + 1))

\* The editor's default word separators, and blanks: the characters the second
\* alternative of the word pattern excludes.
WordSeparators ==
  { Backquote, "~", "!", "@", "#", "$", "%", "^", "&", "*", "(", ")", "-", "=",
    "+", "[", "{", "]", "}", "\\", "|", ";", ":", "'", "\"", ",", ".", "<", ">",
    "/", "?" } \cup SpaceChars

\* [^separators\s]+ at offset i: the end offset of the run.
RECURSIVE WordEnd(_, _)
WordEnd(s, i) ==
  IF i < Len(s) /\ s[i + 1] \notin WordSeparators THEN WordEnd(s, i + 1) ELSE i

\* \.\d\w* at offset k, or -1.
fractionEnd(s, k) ==
  IF k + 1 < Len(s) /\ s[k + 1] = "." /\ s[k + 2] \in Digits
  THEN RunEnd(s, k + 2, WordChars)
  ELSE -1

\* The first alternative of the word pattern, -?\d*\.\d\w*, at offset i: the
\* end offset of the match, or -1. Taking fewer digits or leaving the sign
\* out never makes a failed attempt match.
numberEnd(s, i) ==
  fractionEnd(s, RunEnd(s, IF s[i + 1] = "-" THEN i + 1 ELSE i, Digits))

\* The editor's default word pattern
\*   (-?\d*\.\d\w*)|([^`~!@#$%^&*()-=+[{]}\|;:'",.<>/?\s]+)
\* at offset i < Len(s): the end offset of the match, or -1.
wordPatternOr(s, i, number) ==
  IF number >= 0 THEN number
  ELSE IF s[i + 1] \notin WordSeparators THEN WordEnd(s, i)
  ELSE -1

wordPatternEnd(s, i) == wordPatternOr(s, i, numberEnd(s, i))

\* The matches of the word pattern from offset i on, one after the other, up
\* to the first whose span index..end holds the position.
RECURSIVE wordPatternFrom(_, _, _)
RECURSIVE wordPatternStep(_, _, _, _)
wordPatternFrom(s, i, character) ==
  IF i > character \/ i >= Len(s) THEN NoMatch
  ELSE wordPatternStep(s, i, character, wordPatternEnd(s, i))

wordPatternStep(s, i, character, end) ==
  IF end < 0 THEN wordPatternFrom(s, i + 1, character)
  ELSE IF character <= end THEN [found |-> TRUE, start |-> i, end |-> end]
  ELSE wordPatternFrom(s, end, character)

\* document.getWordRangeAtPosition(position): the match of the word pattern
\* on the line whose span holds the position, if any.
getWordRangeAtPosition(s, character) == wordPatternFrom(s, 0, character)

\* Strategy 1 on a match whose span holds the position: the identifier when
\* the position is in structNameStart..structNameEnd, else the whole match.
structResult(character, match, structNameStart) ==
  IF character >= structNameStart /\ character <= structNameStart + Len(match.group1)
  THEN [found |-> TRUE, strategy |-> 1, text |-> match.group1,
        start |-> structNameStart, end |-> structNameStart + Len(match.group1)]
  ELSE [found |-> TRUE, strategy |-> 1, text |-> collapseSpaces(trim(match.text)),
        start |-> match.index, end |-> match.end]

\* The while loop of strategy 1 from structPattern.lastIndex = from on: the
\* first match whose span holds the position decides.
RECURSIVE structStrategy(_, _, _), structLoop(_, _, _)
structStrategy(s, character, from) == structLoop(s, character, structPatternExec(s, from))

\* One turn of the loop of strategy 1, on what exec returned.
structLoop(s, character, match) ==
  IF ~match.found THEN NoMatch
  ELSE IF character >= match.index /\ character <= match.end
  THEN structResult(character, match, match.index + indexOf(match.text, match.group1))
  ELSE structStrategy(s, character, match.end)

\* The while loop of strategy 3.
RECURSIVE typeStrategy(_, _, _), typeLoop(_, _, _)
typeStrategy(s, character, from) == typeLoop(s, character, typePatternExec(s, from))

\* One turn of the loop of strategy 3, on what exec returned.
typeLoop(s, character, match) ==
  IF ~match.found THEN NoMatch
  ELSE IF character >= match.index /\ character <= match.end
  THEN [found |-> TRUE, strategy |-> 3, text |-> collapseSpaces(trim(match.text)),
        start |-> match.index, end |-> match.end]
  ELSE typeStrategy(s, character, match.end)

\* Array.prototype.includes on typeKeywords.
isTypeKeyword(word) == \E k \in DOMAIN typeKeywords : typeKeywords[k] = word

\* The word of the range as a match of the given strategy.
wordResult(strategy, wordRange, word) ==
  [found |-> TRUE, strategy |-> strategy, text |-> word,
   start |-> wordRange.start, end |-> wordRange.end]

\* Strategy 2: the word at the position when it names a known user type.
knownTypeStrategy(wordRange, word, structs) ==
  IF wordRange.found /\ word \in DOMAIN structs
  THEN wordResult(2, wordRange, word)
  ELSE NoMatch

\* Strategy 4: the word at the position when it is a vocabulary keyword or
\* holds a `*`.
keywordStrategy(wordRange, word) ==
  IF wordRange.found /\ (isTypeKeyword(word) \/ includes(word, <<"*">>))
  THEN wordResult(4, wordRange, word)
  ELSE NoMatch

\* The strategies with the composite pattern tried before the known user type.
locateCompositeFirst(s, character, structs, wordRange) ==
  orElse(structStrategy(s, character, 0),
    orElse(typeStrategy(s, character, 0),
      orElse(knownTypeStrategy(wordRange, substring(s, wordRange.start, wordRange.end), structs),
        keywordStrategy(wordRange, substring(s, wordRange.start, wordRange.end)))))

\* The four strategies in order, wordRange being
\* document.getWordRangeAtPosition(position).
locate(s, character, structs, wordRange) ==
  orElse(structStrategy(s, character, 0),
    orElse(knownTypeStrategy(wordRange, substring(s, wordRange.start, wordRange.end), structs),
      orElse(typeStrategy(s, character, 0),
        keywordStrategy(wordRange, substring(s, wordRange.start, wordRange.end)))))

\* MemorySizeHoverProvider.getTypeAtPosition on the line s; structs is what
\* getStructsFromDocument(document) returns.
getTypeAtPosition(s, character, structs) ==
  locate(s, character, structs, getWordRangeAtPosition(s, character))

\* StructAnalyzer.findStructs(document): the user-defined types of the
\* document's current text, each with its total size.
findStructs(uri) == docStructs[uri]

\* getStructsFromDocument that asks the analyzer at every call.
getStructsFromDocumentFresh(uri) == findStructs(uri)

\* What getStructsFromDocument(document) returns: the cached mapping, computed
\* by the analyzer when the cache has none for the document.
getStructsFromDocument(uri) ==
  IF uri \in DOMAIN structCache THEN structCache[uri] ELSE findStructs(uri)

\* The cache after getStructsFromDocument(document).
cacheAfterLookup(uri) ==
  [u \in DOMAIN structCache \cup {uri} |->
     IF u \in DOMAIN structCache THEN structCache[u] ELSE findStructs(u)]

\* The three prefixes getStructInfo strips, in source order.
AggregatePrefixes ==
  << <<"s","t","r","u","c","t"," ">>, <<"u","n","i","o","n"," ">>,
     <<"c","l","a","s","s"," ">> >>

\* typeName.substring(prefix.length).trim()
withoutPrefix(typeName, prefix) == trim(substring(typeName, Len(prefix), Len(typeName)))

\* MemorySizeHoverProvider.getStructInfo: the exact name, then the name with a
\* leading `struct `, `union ` or `class ` cut off.
RECURSIVE getStructInfoFrom(_, _, _)
getStructInfoFrom(structs, typeName, k) ==
  IF k > Len(AggregatePrefixes) THEN Null
  ELSE IF /\ startsWith(typeName, AggregatePrefixes[k])
          /\ withoutPrefix(typeName, AggregatePrefixes[k]) \in DOMAIN structs
       THEN [tag |-> "struct",
             info |-> structs[withoutPrefix(typeName, AggregatePrefixes[k])]]
       ELSE getStructInfoFrom(structs, typeName, k + 1)

getStructInfo(structs, typeName) ==
  IF typeName \in DOMAIN structs THEN [tag |-> "struct", info |-> structs[typeName]]
  ELSE getStructInfoFrom(structs, typeName, 1)

\* The pointer branch of getMemoryInfo: the pointer size, whatever the base.
pointerInfo(baseType) ==
  [tag |-> "info", size |-> getPointerSize,
   description |-> IF getTypeInfo(baseType).tag # "null"
                   THEN [text |-> "Pointer to", base |-> baseType]
                   ELSE [text |-> "Pointer type", base |-> << >>]]

\* The basic-type branch of getMemoryInfo, on getTypeInfo(cleanType) and
\* getMemorySize(cleanType).
basicInfo(typeInfoOf, size) ==
  IF typeInfoOf.tag = "null" THEN Null
  ELSE IF size.tag = "TypeError" THEN Thrown
  ELSE IF size.tag = "null" THEN Null
  ELSE [tag |-> "info", size |-> size.value,
        description |-> [text |-> typeInfoOf.info.desc, base |-> << >>]]

\* A pointer branch that sizes a pointer to a known base type by the base type.
pointerInfoBaseFirst(baseType, size) ==
  IF size.tag = "number"
  THEN [tag |-> "info", size |-> size.value,
        description |-> [text |-> "Pointer to", base |-> baseType]]
  ELSE pointerInfo(baseType)

memoryInfoBaseFirst(cleanType, baseType) ==
  IF includes(cleanType, <<"*">>)
  THEN pointerInfoBaseFirst(baseType, getMemorySize(baseType))
  ELSE basicInfo(getTypeInfo(cleanType), getMemorySize(cleanType))

\* getMemoryInfo that sizes a pointer to a known base type by the base type.
getMemoryInfoBaseFirst(type) ==
  memoryInfoBaseFirst(trim(type), trim(stripPointerMarkers(trim(type))))

\* getMemoryInfo on cleanType = type.trim() and
\* baseType = cleanType.replace(/\s*\*+\s*/g, '').trim()
memoryInfo(cleanType, baseType) ==
  IF includes(cleanType, <<"*">>)
  THEN pointerInfo(baseType)
  ELSE basicInfo(getTypeInfo(cleanType), getMemorySize(cleanType))

\* MemorySizeHoverProvider.getMemoryInfo
getMemoryInfo(type) == memoryInfo(trim(type), trim(stripPointerMarkers(trim(type))))

\* The architecture line createStructHover and createTypeHover append.
architectureLine ==
  IF cfgShowArch THEN [shown |-> TRUE, is64Bit |-> is64Bit, label |-> architecture]
  ELSE [shown |-> FALSE]

Idle == [kind |-> "idle"]

\* The body of provideHover after getTypeAtPosition returned typeAt, on
\* structInfo = getStructInfo(document, typeAt.text) and
\* memoryInfoOf = getMemoryInfo(typeAt.text).
hoverOf(request, typeAt, structInfo, memoryInfoOf) ==
  IF ~typeAt.found THEN [kind |-> "none", request |-> request, match |-> typeAt]
  ELSE IF structInfo.tag = "struct"
  THEN [kind |-> "struct", request |-> request, match |-> typeAt,
        size |-> structInfo.info.totalSize, arch |-> architectureLine]
  ELSE IF memoryInfoOf.tag = "null"
  THEN [kind |-> "none", request |-> request, match |-> typeAt]
  ELSE IF memoryInfoOf.tag = "TypeError"
  THEN [kind |-> "error", request |-> request, match |-> typeAt]
  ELSE [kind |-> "type", request |-> request, match |-> typeAt,
        size |-> memoryInfoOf.size, description |-> memoryInfoOf.description,
        arch |-> architectureLine]

\* provideHover on what getTypeAtPosition returned.
hoverAt(request, structs, typeAt) ==
  hoverOf(request, typeAt, getStructInfo(structs, typeAt.text), getMemoryInfo(typeAt.text))

\* provideHover on structs = getStructsFromDocument(document).
hoverIn(request, structs) ==
  hoverAt(request, structs, getTypeAtPosition(request.line, request.character, structs))

\* MemorySizeHoverProvider.provideHover at offset `character` of lineText in
\* document uri: the hover returned (kind "struct" or "type"), undefined
\* (kind "none") or a thrown error (kind "error"), with the request and the
\* locator's match it comes from.
provideHover(uri, character) ==
  hoverIn([uri |-> uri, line |-> lineText, character |-> character],
          getStructsFromDocument(uri))

\* Whether the call that returned `result` called getStructsFromDocument: in
\* strategy 2 when strategy 1 returned nothing and there is a word at the
\* position, and in getStructInfo when the locator returned a match (which it
\* does whenever strategy 1 returned one).
consultsStructs(result) ==
  \/ result.match.found
  \/ getWordRangeAtPosition(result.request.line, result.request.character).found

-----------------------------------------------------------------------------
(* The inputs the model draws from.                                         *)

\* Values of os.arch().
Hosts == { <<"x","6","4">>, <<"i","a","3","2">> }

\* Values of the setting memorySizeHover.architecture.
ArchitectureModes == {"auto", "x32", "x64", "target"}

\* Values of the setting C_Cpp.default.intelliSenseMode: unset, msvc-x64,
\* gcc-x86, clang-arm64, GCC-ARM, clang, and a value with Greek capitals, the
\* second a sigma at the end of its word.
IntelliSenseModes ==
  { << >>,
    <<"m","s","v","c","-","x","6","4">>,
    <<"g","c","c","-","x","8","6">>,
    <<"c","l","a","n","g","-","a","r","m","6","4">>,
    <<"G","C","C","-","A","R","M">>,
    <<"c","l","a","n","g">>,
    <<"Α","Σ","-","x","6","4">> }

\* Descriptors for the resolver on its own: those above and gcc-amd64,
\* gcc-aarch64, gcc-i386, gcc-i686, win32 and i686-AMD64, so that every
\* substring detectTargetArchitecture looks for decides at least one of them.
Descriptors ==
  IntelliSenseModes \cup
  { <<"g","c","c","-","a","m","d","6","4">>,
    <<"g","c","c","-","a","a","r","c","h","6","4">>,
    <<"g","c","c","-","i","3","8","6">>,
    <<"g","c","c","-","i","6","8","6">>,
    <<"w","i","n","3","2">>,
    <<"i","6","8","6","-","A","M","D","6","4">> }

Docs == {"a.c", "b.c"}

Foo == <<"F","o","o">>

\* What the aggregate analyzer can report for a document: no user-defined
\* type, or the type Foo of 12 bytes.
StructMaps == { << >>, [n \in {Foo} |-> [totalSize |-> 12]] }

\* long / long x; / long long / unsigned long long x; / int *p; / int* p; /
\* struct Foo *p / struct Bar *p / Foo x;
SampleLines ==
  { <<"l","o","n","g">>,
    <<"l","o","n","g"," ","x",";">>,
    <<"l","o","n","g"," ","l","o","n","g">>,
    <<"u","n","s","i","g","n","e","d"," ","l","o","n","g"," ","l","o","n","g"," ","x",";">>,
    <<"i","n","t"," ","*","p",";">>,
    <<"i","n","t","*"," ","p",";">>,
    <<"s","t","r","u","c","t"," ","F","o","o"," ","*","p">>,
    <<"s","t","r","u","c","t"," ","B","a","r"," ","*","p">>,
    <<"F","o","o"," ","x",";">> }

\* The pieces the locator's lines are put together from.
Pieces ==
  { <<"s","t","r","u","c","t">>, <<"i","n","t">>, <<"l","o","n","g">>, <<"F","o","o">>,
    <<"s">>, <<"*">>, <<" ">>, <<";">> }

MaxPieces == 3

RECURSIVE LinesOf(_)
LinesOf(n) ==
  IF n = 0 THEN { << >> }
  ELSE LET shorter == LinesOf(n - 1)
       IN  shorter \cup {l \o p : l \in shorter, p \in Pieces}

\* int * p; / struct Foo * x / struct s x; / int Foo; / int longlong /
\* longlong int / int *long x / struct Foo and long long x; with a form feed
\* for the blank / Foo.5 / long 1.5f / "Foo" / struct Foo struct s /
\* struct Foo*struct s
LongerLines ==
  { <<"i","n","t"," ","*"," ","p",";">>,
    <<"s","t","r","u","c","t"," ","F","o","o"," ","*"," ","x">>,
    <<"s","t","r","u","c","t"," ","s"," ","x",";">>,
    <<"i","n","t"," ","F","o","o",";">>,
    <<"i","n","t"," ","l","o","n","g","l","o","n","g">>,
    <<"l","o","n","g","l","o","n","g"," ","i","n","t">>,
    <<"i","n","t"," ","*","l","o","n","g"," ","x">>,
    <<"s","t","r","u","c","t","\f","F","o","o">>,
    <<"l","o","n","g","\f","l","o","n","g"," ","x",";">>,
    <<"F","o","o",".","5">>,
    <<"l","o","n","g"," ","1",".","5","f">>,
    <<"\"","F","o","o","\"">>,
    <<"s","t","r","u","c","t"," ","F","o","o"," ","s","t","r","u","c","t"," ","s">>,
    <<"s","t","r","u","c","t"," ","F","o","o","*","s","t","r","u","c","t"," ","s">> }

LocatorLines == LinesOf(MaxPieces) \cup SampleLines \cup LongerLines

\* The names the layout table is asked for: every key in its own spelling,
\* in capitals, with blanks around it, with its inner blanks doubled and with
\* other blanks of the class \s in and around it, and some names that are no
\* key (Foo, constructor, longlong, a Greek word, the empty name).
toUpperChar(c) ==
  IF c \in Range(LowerLetters)
  THEN UpperLetters[CHOOSE k \in DOMAIN LowerLetters : LowerLetters[k] = c]
  ELSE c

RECURSIVE doubleBlanks(_)
doubleBlanks(s) ==
  IF s = << >> THEN << >>
  ELSE (IF Head(s) = " " THEN <<" ", " ">> ELSE <<Head(s)>>) \o doubleBlanks(Tail(s))

SpellingsOf(key) ==
  { key,
    [k \in 1..Len(key) |-> toUpperChar(key[k])],
    <<" ">> \o key \o <<"\t">>,
    doubleBlanks(key),
    <<"\n", VerticalTab>> \o key \o <<NoBreakSpace>>,
    [k \in 1..Len(key) |-> IF key[k] = " " THEN "\f" ELSE key[k]] }

TableNames ==
  UNION {SpellingsOf(typeInfo[k].key) : k \in DOMAIN typeInfo}
    \cup { << >>, Foo, <<"c","o","n","s","t","r","u","c","t","o","r">>,
           <<"l","o","n","g","l","o","n","g">>, <<"Α","Σ">> }

MaxRefreshes == 2

-----------------------------------------------------------------------------
(* The state machine.                                                       *)

\* The state after activate(): the provider's constructor has called
\* refreshArchitecture() under the configuration found, the cache is empty,
\* the pointer is in document a.c and the other document declares no type.
InitWith(modes, intelliSenseModes, shows, lines) ==
  /\ hostArch \in Hosts
  /\ cfgArchitecture \in modes
  /\ cfgIntelliSense \in intelliSenseModes
  /\ cfgShowArch \in shows
  /\ architecture = resolveArchitecture(cfgArchitecture, cfgIntelliSense).arch
  /\ is64Bit = resolveArchitecture(cfgArchitecture, cfgIntelliSense).is64Bit
  /\ refreshes = 1
  /\ structCache = << >>
  /\ activeDoc = "a.c"
  /\ docStructs \in {[d \in Docs |-> IF d = activeDoc THEN m ELSE << >>] : m \in StructMaps}
  /\ lineText \in lines
  /\ hover = Idle

\* MemorySizeHoverProvider.clearCache
clearCache == structCache' = << >>

\* A handler that clears the cache and leaves the architecture state as it is.
OnArchitectureSettingChangedCacheOnly ==
  /\ UNCHANGED << architecture, is64Bit >>
  /\ clearCache

\* The onDidChangeConfiguration handler of activate() for an event that
\* affects memorySizeHover.architecture or C_Cpp.default.intelliSenseMode.
OnArchitectureSettingChanged ==
  /\ refreshArchitecture(cfgArchitecture', cfgIntelliSense')
  /\ clearCache

\* The user sets memorySizeHover.architecture; the handler runs.
ChangeArchitecture(mode) ==
  /\ hover = Idle
  /\ mode # cfgArchitecture
  /\ cfgArchitecture' = mode
  /\ cfgIntelliSense' = cfgIntelliSense
  /\ OnArchitectureSettingChanged
  /\ refreshes' = 1
  /\ UNCHANGED << hostArch, cfgShowArch, docStructs, activeDoc, lineText, hover >>

\* The toolchain's C_Cpp.default.intelliSenseMode changes; the handler runs.
ChangeIntelliSenseMode(intelliSenseMode) ==
  /\ hover = Idle
  /\ intelliSenseMode # cfgIntelliSense
  /\ cfgIntelliSense' = intelliSenseMode
  /\ cfgArchitecture' = cfgArchitecture
  /\ OnArchitectureSettingChanged
  /\ refreshes' = 1
  /\ UNCHANGED << hostArch, cfgShowArch, docStructs, activeDoc, lineText, hover >>

\* The user sets memorySizeHover.showArchitecture; the handler clears the cache.
ChangeShowArchitecture ==
  /\ hover = Idle
  /\ cfgShowArch' = ~cfgShowArch
  /\ clearCache
  /\ UNCHANGED << hostArch, cfgArchitecture, cfgIntelliSense, architecture, is64Bit,
                  refreshes, docStructs, activeDoc, lineText, hover >>

\* A configuration event that names an architecture setting whose effective
\* value stays as it was: the handler refreshes again.
RefreshAgain ==
  /\ hover = Idle
  /\ refreshes < MaxRefreshes
  /\ UNCHANGED << cfgArchitecture, cfgIntelliSense >>
  /\ OnArchitectureSettingChanged
  /\ refreshes' = refreshes + 1
  /\ UNCHANGED << hostArch, cfgShowArch, docStructs, activeDoc, lineText, hover >>

\* The user edits the document: the pointer's line reads differently.
EditLine(line) ==
  /\ hover = Idle
  /\ line # lineText
  /\ lineText' = line
  /\ UNCHANGED << hostArch, cfgArchitecture, cfgIntelliSense, cfgShowArch, architecture,
                  is64Bit, refreshes, structCache, docStructs, activeDoc, hover >>

\* The user edits the document: it declares other user-defined types.
EditStructs(structs) ==
  /\ hover = Idle
  /\ structs # docStructs[activeDoc]
  /\ docStructs' = [docStructs EXCEPT ![activeDoc] = structs]
  /\ UNCHANGED << hostArch, cfgArchitecture, cfgIntelliSense, cfgShowArch, architecture,
                  is64Bit, refreshes, structCache, activeDoc, lineText, hover >>

\* The editor asks for a hover at offset `character` of the pointer's line.
ProvideHover(character) ==
  /\ hover = Idle
  /\ hover' = provideHover(activeDoc, character)
  /\ structCache' = IF consultsStructs(hover') THEN cacheAfterLookup(activeDoc)
                    ELSE structCache
  /\ UNCHANGED << hostArch, cfgArchitecture, cfgIntelliSense, cfgShowArch, architecture,
                  is64Bit, refreshes, docStructs, activeDoc, lineText >>

\* The pointer moves to another document: the next request is for it.
SwitchDocument(uri) ==
  /\ hover = Idle
  /\ uri # activeDoc
  /\ activeDoc' = uri
  /\ UNCHANGED << hostArch, cfgArchitecture, cfgIntelliSense, cfgShowArch, architecture,
                  is64Bit, refreshes, structCache, docStructs, lineText, hover >>

\* The editor has taken the hover; the request is over.
ReturnHover ==
  /\ hover # Idle
  /\ hover' = Idle
  /\ UNCHANGED << hostArch, cfgArchitecture, cfgIntelliSense, cfgShowArch, architecture,
                  is64Bit, refreshes, structCache, docStructs, activeDoc, lineText >>

\* A caller asks the layout table for the name in lineText: getTypeInfo,
\* getMemorySize and getAlignment.
Lookup ==
  /\ hover = Idle
  /\ hover' = [kind |-> "lookup", name |-> lineText, info |-> getTypeInfo(lineText),
               size |-> getMemorySize(lineText), alignment |-> getAlignment(lineText)]
  /\ UNCHANGED << hostArch, cfgArchitecture, cfgIntelliSense, cfgShowArch, architecture,
                  is64Bit, refreshes, structCache, docStructs, activeDoc, lineText >>

Init == InitWith(ArchitectureModes, IntelliSenseModes, BOOLEAN, SampleLines)

Next ==
  \/ \E mode \in ArchitectureModes : ChangeArchitecture(mode)
  \/ \E intelliSenseMode \in IntelliSenseModes : ChangeIntelliSenseMode(intelliSenseMode)
  \/ ChangeShowArchitecture
  \/ RefreshAgain
  \/ \E line \in SampleLines : EditLine(line)
  \/ \E structs \in StructMaps : EditStructs(structs)
  \/ \E character \in 0..Len(lineText) : ProvideHover(character)
  \/ ReturnHover

Spec == Init /\ [][Next]_vars

\* The locator on its own: every line of LocatorLines under the default
\* configuration, hovered at every offset.
LocatorInit == InitWith({"auto"}, {<< >>}, {TRUE}, LocatorLines)

LocatorNext ==
  \/ \E character \in 0..Len(lineText) : ProvideHover(character)
  \/ ReturnHover

LocatorSpec == LocatorInit /\ [][LocatorNext]_vars

\* The provider over two documents: requests for either, edits of their
\* user-defined types and changes of every setting the handler listens to, on
\* the line `Foo x;`.
CacheLines == { <<"F","o","o"," ","x",";">> }

CacheModes == {"auto", "x32"}

CacheIntelliSenseModes == { << >>, <<"g","c","c","-","x","8","6">> }

CacheInit == InitWith(CacheModes, {<< >>}, BOOLEAN, CacheLines)

CacheNext ==
  \/ \E mode \in CacheModes : ChangeArchitecture(mode)
  \/ \E intelliSenseMode \in CacheIntelliSenseModes : ChangeIntelliSenseMode(intelliSenseMode)
  \/ ChangeShowArchitecture
  \/ RefreshAgain
  \/ \E uri \in Docs : SwitchDocument(uri)
  \/ \E structs \in StructMaps : EditStructs(structs)
  \/ \E character \in 0..Len(lineText) : ProvideHover(character)
  \/ ReturnHover

CacheSpec == CacheInit /\ [][CacheNext]_vars

\* The resolver on its own: every mode and every descriptor of Descriptors on
\* either host, changed and refreshed in any order, hovers on `long` and
\* `int *p;` in between.
ResolverLines == { <<"l","o","n","g">>, <<"i","n","t"," ","*","p",";">> }

ResolverInit == InitWith(ArchitectureModes, Descriptors, BOOLEAN, ResolverLines)

ResolverNext ==
  \/ \E mode \in ArchitectureModes : ChangeArchitecture(mode)
  \/ \E intelliSenseMode \in Descriptors : ChangeIntelliSenseMode(intelliSenseMode)
  \/ ChangeShowArchitecture
  \/ RefreshAgain
  \/ \E character \in 0..Len(lineText) : ProvideHover(character)
  \/ ReturnHover

ResolverSpec == ResolverInit /\ [][ResolverNext]_vars

\* The layout table on its own: every name of TableNames, looked up under a
\* forced 32-bit and a forced 64-bit architecture.
TableInit == InitWith({"x32", "x64"}, {<< >>}, {TRUE}, TableNames)

TableNext ==
  \/ Lookup
  \/ ReturnHover

TableSpec == TableInit /\ [][TableNext]_vars

-----------------------------------------------------------------------------
(* Vocabulary of the properties: aggregate-keyword matches, words and runs  *)
(* of vocabulary tokens of a line.                                          *)

\* Start offset of the longest run of characters of class C ending at offset i.
RECURSIVE RunStart(_, _, _)
RunStart(s, i, C) ==
  IF i > 0 /\ s[i] \in C THEN RunStart(s, i - 1, C) ELSE i

\* Every match of the aggregate-keyword pattern on the line, left to right.
RECURSIVE AggregateMatches(_, _)
AggregateMatches(s, from) ==
  LET m == structPatternExec(s, from)
  IN  IF ~m.found THEN {} ELSE {m} \cup AggregateMatches(s, m.end)

\* Where the identifier of an aggregate-keyword match stands: after the
\* keyword and the blanks that follow it.
IdentifierStart(s, m) == RunEnd(s, RunEnd(s, m.index, WordChars), SpaceChars)
IdentifierEnd(s, m) == IdentifierStart(s, m) + Len(m.group1)
KeywordEnd(s, m) == RunEnd(s, m.index, WordChars)

IsWordStart(s, a) == a < Len(s) /\ s[a + 1] \in WordChars /\ (a = 0 \/ s[a] \notin WordChars)
IsWordEnd(s, b) == b > 0 /\ s[b] \in WordChars /\ (b = Len(s) \/ s[b + 1] \notin WordChars)

IsToken(w) == \E k \in DOMAIN typeKeywords : typeKeywords[k] = w

\* The word before offset a and the word after offset b, blanks only between;
\* the empty word when there is none.
LeftNeighbour(s, a) ==
  LET p == RunStart(s, a, SpaceChars)
  IN  IF p < a /\ p > 0 /\ s[p] \in WordChars
      THEN substring(s, RunStart(s, p, WordChars), p) ELSE << >>

RightNeighbour(s, b) ==
  LET p == RunEnd(s, b, SpaceChars)
  IN  IF p > b /\ p < Len(s) /\ s[p + 1] \in WordChars
      THEN substring(s, p, RunEnd(s, p, WordChars)) ELSE << >>

\* The offsets a..b of s hold a maximal run of blank-separated vocabulary tokens.
TokenRun(s, a, b) ==
  /\ a < b /\ IsWordStart(s, a) /\ IsWordEnd(s, b)
  /\ \A k \in (a + 1)..b : s[k] \in WordChars \/ s[k] \in SpaceChars
  /\ \A x \in a..(b - 1) : IsWordStart(s, x) => IsToken(substring(s, x, RunEnd(s, x, WordChars)))
  /\ ~IsToken(LeftNeighbour(s, a))
  /\ ~IsToken(RightNeighbour(s, b))

TokenRuns(s) ==
  {r \in {a \in 0..Len(s) : IsWordStart(s, a)} \X {b \in 0..Len(s) : IsWordEnd(s, b)} :
     TokenRun(s, r[1], r[2])}

\* A `*` run stands after offset b, blanks allowed before it.
StarsAfter(s, b) ==
  LET p == RunEnd(s, b, SpaceChars) IN p < Len(s) /\ s[p + 1] = "*"

Hovered == hover.kind # "idle"

\* The word at offset c of the line, the empty word when there is none.
WordAt(s, c) ==
  LET r == getWordRangeAtPosition(s, c)
  IN  IF r.found THEN substring(s, r.start, r.end) ELSE << >>

\* The mapping of user-defined types the request of `hover` was served with.
KnownUserTypes == DOMAIN getStructsFromDocument(hover.request.uri)

InAggregateMatch(s, c) == \E m \in AggregateMatches(s, 0) : c >= m.index /\ c <= m.end

-----------------------------------------------------------------------------
(* C1 *)

\* C1: on a line with an aggregate-keyword match, a hover at any offset of the
\* identifier's own span gets exactly the identifier as match text and the
\* identifier's span as span, whatever the identifier; a hover at an offset of
\* the keyword does not get the identifier.
C1_IdentifierSubSpan ==
  Hovered =>
    LET s == hover.request.line
        c == hover.request.character
    IN  \A m \in AggregateMatches(s, 0) :
          /\ (c >= IdentifierStart(s, m) /\ c <= IdentifierEnd(s, m))
               => /\ hover.match.found
                  /\ hover.match.text = m.group1
                  /\ hover.match.start = IdentifierStart(s, m)
                  /\ hover.match.end = IdentifierEnd(s, m)
          /\ (c >= m.index /\ c < KeywordEnd(s, m))
               => ~(hover.match.found /\ hover.match.text = m.group1)

-----------------------------------------------------------------------------
(* C3 *)

\* C3: when a run of built-in tokens that names a type of the layout table is
\* followed, after optional blanks, by one or more `*`, a hover on the run
\* reports the pointer size and describes a pointer to that base type,
\* whatever follows the `*` run.
C3_PointerToKnownBase ==
  Hovered =>
    LET s == hover.request.line
        c == hover.request.character
    IN  \A r \in TokenRuns(s) :
          ( /\ c >= r[1] /\ c <= r[2]
            /\ getTypeInfo(substring(s, r[1], r[2])).tag = "entry"
            /\ StarsAfter(s, r[2]) )
          => /\ hover.kind = "type"
             /\ hover.size = (IF is64Bit THEN 8 ELSE 4)
             /\ hover.description =
                  [text |-> "Pointer to", base |-> collapseSpaces(substring(s, r[1], r[2]))]

-----------------------------------------------------------------------------
(* C5 *)

UnsignedLongLongLine ==
  <<"u","n","s","i","g","n","e","d"," ","l","o","n","g"," ","l","o","n","g"," ","x",";">>

\* `unsigned long long x;` hovered inside either `long` gives the match text
\* `unsigned long long` and the size 8, under both bit-widths.
UnsignedLongLongCase ==
  ( /\ hover.request.line = UnsignedLongLongLine
    /\ hover.request.character \in 9..18 )
  => /\ hover.kind = "type"
     /\ hover.match.text =
          <<"u","n","s","i","g","n","e","d"," ","l","o","n","g"," ","l","o","n","g">>
     /\ hover.size = 8

\* C5: for every run of blank-separated vocabulary tokens, with no
\* aggregate-keyword match and no known user type at the cursor, a hover at any
\* offset of the run gets the whole run, blanks collapsed, as match text; and
\* `unsigned long long x;` hovered inside either `long` gives
\* `unsigned long long` and 8 bytes under both bit-widths.
C5_WholeRun ==
  Hovered =>
    LET s == hover.request.line
        c == hover.request.character
    IN  /\ \A r \in TokenRuns(s) :
             ( /\ c >= r[1] /\ c <= r[2]
               /\ ~InAggregateMatch(s, c)
               /\ WordAt(s, c) \notin KnownUserTypes )
             => /\ hover.match.found
                /\ hover.match.text = collapseSpaces(substring(s, r[1], r[2]))
        /\ UnsignedLongLongCase

-----------------------------------------------------------------------------
(* C6 *)

\* C6: a hover on a word that is neither a vocabulary keyword, nor a known
\* user type, nor the identifier of an aggregate-keyword match returns nothing.
C6_UnknownIdentifier ==
  Hovered =>
    LET s == hover.request.line
        c == hover.request.character
        wordRange == getWordRangeAtPosition(s, c)
        word == substring(s, wordRange.start, wordRange.end)
    IN  ( /\ wordRange.found
          /\ \A k \in 1..Len(word) : word[k] \in WordChars
          /\ ~IsToken(word)
          /\ word \notin KnownUserTypes
          /\ \A m \in AggregateMatches(s, 0) : IdentifierStart(s, m) # wordRange.start )
        => hover.kind = "none"

-----------------------------------------------------------------------------
(* C7, C8 *)

\* Two names are the same up to letter case, blanks around them and the
\* length of the blank runs inside them.
SameName(x, y) ==
  collapseSpaces(toLowerCase(trim(x))) = collapseSpaces(toLowerCase(trim(y)))

\* C7: a name that equals a key of the layout table up to letter case and
\* blanks (the key's own spelling included) is looked up to that key's entry;
\* any other name is looked up to null.
C7_LookupExact ==
  hover.kind = "lookup" =>
    LET keys == {k \in DOMAIN typeInfo : SameName(hover.name, typeInfo[k].key)}
    IN  IF keys # {}
        THEN \E k \in keys : hover.info = [tag |-> "entry", info |-> typeInfo[k]]
        ELSE hover.info = Null

\* C8: for every key of the layout table, under either bit-width, the size and
\* the alignment are numbers and the size is a multiple of the alignment.
C8_SizeMultipleOfAlignment ==
  ( /\ hover.kind = "lookup"
    /\ \E k \in DOMAIN typeInfo : typeInfo[k].key = hover.name )
  => /\ hover.size.tag = "number"
     /\ hover.alignment.tag = "number"
     /\ hover.size.value % hover.alignment.value = 0

-----------------------------------------------------------------------------
(* C2 *)

\* C2: the pointer size is 4 under a 32-bit and 8 under a 64-bit architecture,
\* and a hover whose match text holds a `*` reports exactly that size, whether
\* the text without the markers names a built-in type, an aggregate or nothing
\* known: never the base type's size, an aggregate's total size or nothing.
C2_PointerSize ==
  ( /\ Hovered
    /\ hover.match.found
    /\ includes(hover.match.text, <<"*">>) )
  => /\ hover.kind = "type"
     /\ hover.size = (IF is64Bit THEN 8 ELSE 4)
     /\ hover.size = getPointerSize

\* `struct Foo *p` hovered on the keyword, Foo a known aggregate, 32-bit forced.
C2_Witness ==
  /\ hover.kind = "type"
  /\ hover.match.text = <<"s","t","r","u","c","t"," ","F","o","o"," ","*">>
  /\ Foo \in KnownUserTypes
  /\ cfgArchitecture = "x32"
  /\ hover.size = 4

-----------------------------------------------------------------------------
(* C4 *)

\* C4: whatever the configuration went through, `long` and `long x;` hovered
\* inside `long` resolve to 4 bytes under 32 bits and 8 under 64 bits, and
\* `long long` to 8 bytes under both.
C4_PlatformVariance ==
  Hovered =>
    /\ ( /\ hover.request.line \in { <<"l","o","n","g">>, <<"l","o","n","g"," ","x",";">> }
         /\ hover.request.character \in 0..4 )
       => /\ hover.kind = "type"
          /\ hover.match.text = <<"l","o","n","g">>
          /\ hover.size = (IF is64Bit THEN 8 ELSE 4)
    /\ ( hover.request.line = <<"l","o","n","g"," ","l","o","n","g">> )
       => /\ hover.kind = "type"
          /\ hover.size = 8

\* `long x;` hovered inside `long` on a 64-bit host forced to 32 bits.
C4_Witness ==
  /\ hover.kind = "type"
  /\ hover.request.line = <<"l","o","n","g"," ","x",";">>
  /\ hover.request.character = 2
  /\ hostIs64 /\ cfgArchitecture = "x32"
  /\ hover.size = 4

-----------------------------------------------------------------------------
(* C9, C10, C13: what resolving a configuration yields *)

\* The names of the two classes of toolchain descriptors.
SixtyFourBitNames ==
  { <<"x","6","4">>, <<"a","m","d","6","4">>, <<"a","r","m","6","4">>,
    <<"a","a","r","c","h","6","4">> }

ThirtyTwoBitNames ==
  { <<"x","8","6">>, <<"i","3","8","6">>, <<"i","6","8","6">>, <<"a","r","m">>,
    <<"3","2">> }

\* The character c is p, or p is a small letter of a..z and c its capital.
IsLetterOf(c, p) ==
  c = p \/ \E k \in DOMAIN LowerLetters : LowerLetters[k] = p /\ UpperLetters[k] = c

\* The descriptor d holds the name, its letters in either case.
HoldsIgnoringCase(d, name) ==
  \E i \in 0..(Len(d) - Len(name)) : \A k \in 1..Len(name) : IsLetterOf(d[i + k], name[k])

NamesAny(d, names) == \E name \in names : HoldsIgnoringCase(d, name)

\* The descriptors of Descriptors that are not in small letters already, each
\* with its spelling in small letters.
SmallLetterSpellings ==
  { << <<"G","C","C","-","A","R","M">>, <<"g","c","c","-","a","r","m">> >>,
    << <<"i","6","8","6","-","A","M","D","6","4">>,
       <<"i","6","8","6","-","a","m","d","6","4">> >>,
    << <<"Α","Σ","-","x","6","4">>, <<"α","ς","-","x","6","4">> >> }

InSmallLetters(d) ==
  IF \E p \in SmallLetterSpellings : p[1] = d
  THEN (CHOOSE p \in SmallLetterSpellings : p[1] = d)[2]
  ELSE d

HostIsSixtyFourBit ==
  \E i \in 1..(Len(hostArch) - 1) : hostArch[i] = "6" /\ hostArch[i + 1] = "4"

FallbackLabel ==
  hostArch \o <<" ","(","t","a","r","g","e","t"," ","u","n","a","v","a","i","l","a","b",
                "l","e",","," ","h","o","s","t"," ","f","a","l","l","b","a","c","k",")">>

TargetLabel(width) ==
  width \o <<" ","(","t","a","r","g","e","t",":"," ">> \o InSmallLetters(cfgIntelliSense)
        \o <<")">>

\* What resolving the current configuration on the host yields, read off the
\* mode, the descriptor and the host.
Resolving ==
  IF cfgArchitecture = "x32"
  THEN [is64Bit |-> FALSE, label |-> <<"x","3","2"," ","(","m","a","n","u","a","l",")">>]
  ELSE IF cfgArchitecture = "x64"
  THEN [is64Bit |-> TRUE, label |-> <<"x","6","4"," ","(","m","a","n","u","a","l",")">>]
  ELSE IF cfgArchitecture = "auto"
  THEN [is64Bit |-> HostIsSixtyFourBit, label |-> hostArch \o <<" ","(","h","o","s","t",")">>]
  ELSE IF NamesAny(cfgIntelliSense, SixtyFourBitNames)
  THEN [is64Bit |-> TRUE, label |-> TargetLabel(<<"x","6","4">>)]
  ELSE IF NamesAny(cfgIntelliSense, ThirtyTwoBitNames)
  THEN [is64Bit |-> FALSE, label |-> TargetLabel(<<"x","3","2">>)]
  ELSE [is64Bit |-> HostIsSixtyFourBit, label |-> FallbackLabel]

-----------------------------------------------------------------------------
(* C9 *)

\* The state is a resolved one, a bit-width and a label, and a refresh for
\* any other descriptor can be taken.
RefreshNeverFails ==
  /\ is64Bit \in BOOLEAN
  /\ architecture # << >>
  /\ hover = Idle => \A d \in Descriptors \ {cfgIntelliSense} : ENABLED ChangeIntelliSenseMode(d)

\* C9: in mode target the architecture is 64-bit if the toolchain descriptor,
\* in any letter case, holds x64, amd64, arm64 or aarch64; else 32-bit if it
\* holds x86, i386, i686, arm or 32; else (the empty descriptor too) it is the
\* host's and the label is the fallback label; and the refresh never fails.
C9_TargetMode ==
  cfgArchitecture = "target" =>
    /\ NamesAny(cfgIntelliSense, SixtyFourBitNames)
         => (is64Bit /\ architecture # FallbackLabel)
    /\ ( /\ ~NamesAny(cfgIntelliSense, SixtyFourBitNames)
         /\ NamesAny(cfgIntelliSense, ThirtyTwoBitNames) )
         => (~is64Bit /\ architecture # FallbackLabel)
    /\ ( /\ ~NamesAny(cfgIntelliSense, SixtyFourBitNames)
         /\ ~NamesAny(cfgIntelliSense, ThirtyTwoBitNames) )
         => (is64Bit = HostIsSixtyFourBit /\ architecture = FallbackLabel)
    /\ RefreshNeverFails

\* Mode target with the descriptor i686-AMD64, which holds a name of either
\* class, in capitals, on a 32-bit host, refreshed twice: 64-bit.
C9_Witness ==
  /\ cfgArchitecture = "target"
  /\ cfgIntelliSense = <<"i","6","8","6","-","A","M","D","6","4">>
  /\ ~HostIsSixtyFourBit
  /\ is64Bit
  /\ architecture = <<"x","6","4"," ","(","t","a","r","g","e","t",":"," ",
                      "i","6","8","6","-","a","m","d","6","4",")">>
  /\ refreshes = 2

-----------------------------------------------------------------------------
(* C10 *)

\* {isSixtyFourBit, label} is what the current mode, the descriptor and the
\* host give, in each of the four modes.
ModeDetermines == << is64Bit, architecture >> = << Resolving.is64Bit, Resolving.label >>

\* C10: {isSixtyFourBit, label} is what the current configuration and the host
\* give, whatever the state before; and a step that leaves the architecture
\* mode and the toolchain descriptor as they are - a second refresh among
\* them - leaves {isSixtyFourBit, label} as it is, in every mode.
C10_RefreshIdempotent ==
  /\ []ModeDetermines
  /\ [][ (cfgArchitecture' = cfgArchitecture /\ cfgIntelliSense' = cfgIntelliSense)
          => (is64Bit' = is64Bit /\ architecture' = architecture) ]_vars

\* Mode target on a 32-bit host with the descriptor `clang`, which names no
\* class, refreshed twice: the host's width under the fallback label, shown in
\* a hover.
C10_Witness ==
  /\ refreshes = 2
  /\ cfgArchitecture = "target"
  /\ cfgIntelliSense = <<"c","l","a","n","g">>
  /\ ~HostIsSixtyFourBit
  /\ hover.kind = "type"
  /\ hover.arch = [shown |-> TRUE, is64Bit |-> FALSE,
                   label |-> <<"i","a","3","2"," ","(","t","a","r","g","e","t"," ","u","n",
                               "a","v","a","i","l","a","b","l","e",","," ","h","o","s","t",
                               " ","f","a","l","l","b","a","c","k",")">>]

-----------------------------------------------------------------------------
(* C11 *)

\* Every match of the composite built-in pattern on the line, left to right.
RECURSIVE CompositeMatches(_, _)
CompositeMatches(s, from) ==
  LET m == typePatternExec(s, from)
  IN  IF ~m.found THEN {} ELSE {m} \cup CompositeMatches(s, m.end)

\* The matches whose span holds the offset c, and the leftmost of a set.
Containing(ms, c) == {m \in ms : c >= m.index /\ c <= m.end}
Leftmost(ms) == CHOOSE m \in ms : \A n \in ms : m.index <= n.index

\* C11: the locator returns the result of the lowest-numbered strategy that
\* brackets the cursor: the leftmost aggregate-keyword match holding it; else
\* the word under it when a known user type; else the leftmost composite
\* built-in match holding it; else the word under it when a vocabulary keyword
\* or a word with a `*`; else nothing.
C11_StrictPriority ==
  Hovered =>
    LET s == hover.request.line
        c == hover.request.character
        m == hover.match
        agg == Containing(AggregateMatches(s, 0), c)
        comp == Containing(CompositeMatches(s, 0), c)
        word == WordAt(s, c)
    IN  IF agg # {}
        THEN /\ m.found /\ m.strategy = 1
             /\ m.start >= Leftmost(agg).index /\ m.end <= Leftmost(agg).end
        ELSE IF word # << >> /\ word \in KnownUserTypes
        THEN m.found /\ m.strategy = 2 /\ m.text = word
        ELSE IF comp # {}
        THEN /\ m.found /\ m.strategy = 3
             /\ m.start = Leftmost(comp).index /\ m.end = Leftmost(comp).end
        ELSE IF word # << >> /\ (IsToken(word) \/ "*" \in Range(word))
        THEN m.found /\ m.strategy = 4 /\ m.text = word
        ELSE ~m.found

\* `struct Foo*struct s` hovered at offset 11, where the first aggregate
\* match ends and the second begins: both hold the offset, and so does a
\* composite match; the first aggregate match is returned.
C11_Witness ==
  /\ Hovered
  /\ hover.request.line =
       <<"s","t","r","u","c","t"," ","F","o","o","*","s","t","r","u","c","t"," ","s">>
  /\ hover.request.character = 11
  /\ Cardinality(Containing(AggregateMatches(hover.request.line, 0), 11)) = 2
  /\ Containing(CompositeMatches(hover.request.line, 0), 11) # {}
  /\ hover.match.strategy = 1
  /\ hover.match.start = 0
  /\ hover.match.end = 11
  /\ hover.match.text = <<"s","t","r","u","c","t"," ","F","o","o","*">>

-----------------------------------------------------------------------------
(* C12 *)

\* What is left of a match text once its pointer markers are stripped.
BaseOf(text) == trim(stripPointerMarkers(trim(text)))

\* C12: a hover whose match text holds a `*` reports the pointer size, and
\* when the text without the markers is known to the built-in table or to the
\* aggregate mapping (by its exact name or without a leading `struct `,
\* `union ` or `class `) the description is that of a pointer to that base.
C12_PointerBaseIdentity ==
  ( /\ Hovered
    /\ hover.match.found
    /\ includes(hover.match.text, <<"*">>) )
  => /\ hover.kind = "type"
     /\ hover.size = (IF is64Bit THEN 8 ELSE 4)
     /\ ( \/ getTypeInfo(BaseOf(hover.match.text)).tag = "entry"
          \/ getStructInfo(getStructsFromDocument(hover.request.uri),
                           BaseOf(hover.match.text)).tag = "struct" )
        => hover.description = [text |-> "Pointer to", base |-> BaseOf(hover.match.text)]

-----------------------------------------------------------------------------
(* C13 *)

\* C13: in every state a request can be served in, and in every hover served,
\* {isSixtyFourBit, label} is exactly what resolving the current mode and
\* descriptor on the host yields, both fields from the same resolution; a
\* pointer hovered is sized by it.
C13_StateTracksConfiguration ==
  /\ [is64Bit |-> is64Bit, label |-> architecture] = Resolving
  /\ (hover.kind \in {"struct", "type"} /\ hover.arch.shown)
       => [is64Bit |-> hover.arch.is64Bit, label |-> hover.arch.label] = Resolving
  /\ (hover.kind = "type" /\ includes(hover.match.text, <<"*">>))
       => hover.size = (IF Resolving.is64Bit THEN 8 ELSE 4)

\* A pointer hovered under mode x32 on a 64-bit host with a 64-bit descriptor.
C13_Witness ==
  /\ hover.kind = "type"
  /\ cfgArchitecture = "x32"
  /\ includes(hostArch, <<"6","4">>)
  /\ cfgIntelliSense = <<"m","s","v","c","-","x","6","4">>
  /\ hover.arch = [shown |-> TRUE, is64Bit |-> FALSE,
                   label |-> <<"x","3","2"," ","(","m","a","n","u","a","l",")">>]
  /\ hover.size = 4
  /\ includes(hover.match.text, <<"*">>)

-----------------------------------------------------------------------------
(* C14 *)

\* The step is the handler of a configuration event for the architecture
\* mode, the toolchain descriptor or showArchitecture.
ConfigurationHandled ==
  \/ cfgArchitecture' # cfgArchitecture
  \/ cfgIntelliSense' # cfgIntelliSense
  \/ cfgShowArch' # cfgShowArch
  \/ refreshes' # refreshes

\* What a step may do to the cache: keep an entry as it is, add the entry of
\* the document a request is served for (the analyzer's mapping of that
\* document now), or - in a configuration handler, and only there - empty it.
CacheStep ==
  /\ \A d \in Docs :
       /\ (d \in DOMAIN structCache /\ d \in DOMAIN structCache')
            => structCache'[d] = structCache[d]
       /\ (d \notin DOMAIN structCache /\ d \in DOMAIN structCache')
            => /\ hover = Idle /\ hover' # Idle
               /\ hover'.request.uri = d
               /\ structCache'[d] = docStructs[d]
  /\ ConfigurationHandled => structCache' = << >>
  /\ (\E d \in DOMAIN structCache : d \notin DOMAIN structCache')
       => (structCache' = << >> /\ ConfigurationHandled)

\* A request served for a cached document is served with the cached mapping,
\* whatever the document declares now: the word under the cursor resolves as
\* a user type exactly when the cached mapping holds it.
ServedFromCache ==
  (Hovered /\ hover.request.uri \in DOMAIN structCache) =>
    LET s == hover.request.line
        c == hover.request.character
        cached == structCache[hover.request.uri]
    IN  WordAt(s, c) # << >> /\ ~InAggregateMatch(s, c)
          => IF WordAt(s, c) \in DOMAIN cached
             THEN /\ hover.kind = "struct"
                  /\ hover.match.strategy = 2
                  /\ hover.size = cached[WordAt(s, c)].totalSize
             ELSE hover.kind # "struct"

\* C14: the analyzer's mapping enters the cache only at a request for a
\* document that has no entry, an entry stays as it is until the cache is
\* emptied, the cache is emptied whole and only by a configuration handler,
\* and every request for a cached document is served with the cached mapping
\* even when the document's user types have changed since.
C14_CacheLifetime ==
  /\ [][CacheStep]_vars
  /\ []ServedFromCache

\* Both documents cached, and Foo hovered in a document that no longer
\* declares it: the hover is the one of the cached aggregate.
C14_Witness ==
  /\ DOMAIN structCache = Docs
  /\ hover.kind = "struct"
  /\ hover.match.text = Foo
  /\ Foo \notin DOMAIN docStructs[hover.request.uri]
  /\ hover.size = 12

=============================================================================
